---- MODULE Spec2Model ----
(***************************************************************************)
(* The persistent store of the Mender MCU client on the Posix platform     *)
(* (mender-storage.c): six named items kept as files, written with         *)
(* fopen("wb")/fwrite, read with fopen("rb")/ftell/malloc/fread and        *)
(* removed with unlink.                                                    *)
(*                                                                         *)
(* An item is a record [exists, data]: data is the byte sequence of the    *)
(* file.  Every operation takes the environment's behaviour as one fault   *)
(* point: the backend call (fopen, fwrite, malloc/calloc/strdup, fread,    *)
(* unlink) that fails during the operation, if any.  The code returns at   *)
(* its first failure, so one fault point per operation covers every run.   *)
(* A write that a power loss cuts short leaves the item exactly as a short *)
(* fwrite does (the first n bytes after the truncation done by fopen), so  *)
(* the short write stands for both.  fseek, ftell and fclose are taken to  *)
(* succeed.                                                                *)
(***************************************************************************)
EXTENDS Integers, Sequences, FiniteSets, TLC

(* ------------------------------ bounds -------------------------------- *)

\* Longest key, in bytes, passed to set_authentication_keys.
MaxKeyLen == 2
\* Longest deployment data and longest artifact name passed to their set.
MaxTextLen == 2
\* Longest artifact type passed to save_update_state.
MaxTypeLen == 3
\* Largest update state value passed to save_update_state.
MaxState == 1
\* Most pairs in a provides list passed to set_provides.
MaxPairs == 2
\* Largest mutex handle passed to the scheduler (0 is NULL).
MaxHandle == 3
\* Longest delay, in ms, passed to mender_scheduler_mutex_take.
MaxDelay == 20
\* Longest interval passed to mender_scheduler_activate.
MaxInterval == 5
\* Most distinct argument tuples remembered per record kind.
MaxHist == 2
\* Most restart requests the client makes of the test application.
MaxRestarts == 1
\* Most SIGINT and SIGTERM signals sent to the test application.
MaxSignals == 1
\* Longest formatted log message, past the size of the log buffer.
MaxMessageLen == 258

(* --------------------------- program constants ------------------------ *)

MENDER_STORAGE_NVS_PRIVATE_KEY == "key.der"
MENDER_STORAGE_NVS_PUBLIC_KEY == "pubkey.der"
MENDER_STORAGE_NVS_DEPLOYMENT_DATA == "deployment-data.json"
MENDER_STORAGE_NVS_UPDATE_STATE == "um_state.dat"
MENDER_STORAGE_NVS_PROVIDES == "provides.txt"
\* The artifact name kept in the item of the provides.
artifact_name_item_shared == "provides.txt"
MENDER_STORAGE_NVS_ARTICACT_NAME == "artifact_name.txt"

Items ==
  { MENDER_STORAGE_NVS_PRIVATE_KEY, MENDER_STORAGE_NVS_PUBLIC_KEY,
    MENDER_STORAGE_NVS_DEPLOYMENT_DATA, MENDER_STORAGE_NVS_UPDATE_STATE,
    MENDER_STORAGE_NVS_PROVIDES, MENDER_STORAGE_NVS_ARTICACT_NAME }

MENDER_OK == "MENDER_OK"
MENDER_FAIL == "MENDER_FAIL"
MENDER_NOT_FOUND == "MENDER_NOT_FOUND"
MENDER_NOT_IMPLEMENTED == "MENDER_NOT_IMPLEMENTED"

\* sizeof(mender_update_state_t): an enum, four bytes on the Posix targets.
StateSize == 4

(* ------------------------------ values -------------------------------- *)

AbsentItem == [exists |-> FALSE, data |-> <<>>]
Item(bytes) == [exists |-> TRUE, data |-> bytes]

\* A pointer of the caller: untouched by the call ("prior"), NULL, or the
\* id-th buffer the call allocated.
PtrPrior == [tag |-> "prior", id |-> 0]
PtrNull == [tag |-> "null", id |-> 0]
PtrBuf(i) == [tag |-> "buf", id |-> i]

\* A key-value list of the caller: untouched by the call, or assigned.
None_list == [set |-> FALSE, list |-> <<>>]

\* A size_t of the caller: untouched by the call, or assigned.
LenPrior == [set |-> FALSE, val |-> 0]
LenOf(n) == [set |-> TRUE, val |-> n]

\* A buffer the call allocated: its bytes and how often it was freed.
Buf(bytes) == [bytes |-> bytes, frees |-> 0]
Freed(buf) == [buf EXCEPT !.frees = @ + 1]

\* One backend call of an operation and whether it succeeded.
Call(name, item, ok) == [call |-> name, item |-> item, ok |-> ok]

\* The fault point of an operation: the kind of backend call that fails
\* ("none" when all succeed), on the k-th item or field of the operation,
\* after n bytes were transferred.
NoFault == [at |-> "none", k |-> 1, n |-> 0]
FaultOn(fault, k) ==
  IF fault.k = k THEN fault ELSE [fault EXCEPT !.at = "none", !.k = 1, !.n = 0]

\* The C string held in a NUL-terminated buffer: the bytes before the
\* first NUL.
RECURSIVE CStr(_)
CStr(bytes) ==
  IF bytes = <<>> \/ Head(bytes) = 0 THEN <<>>
  ELSE <<Head(bytes)>> \o CStr(Tail(bytes))

(* --------------------------- mender_log_print ------------------------- *)

\* The size of log_buff.
LOG_MESSAGE_MAX_SIZE_BYTES == 256

MENDER_LOG_LEVEL_ERR == "MENDER_LOG_LEVEL_ERR"
MENDER_LOG_LEVEL_WRN == "MENDER_LOG_LEVEL_WRN"
MENDER_LOG_LEVEL_INF == "MENDER_LOG_LEVEL_INF"
MENDER_LOG_LEVEL_DBG == "MENDER_LOG_LEVEL_DBG"

\* A mender_log_print that puts the three dots one place further on,
\* over the closing NUL of log_buff.
log_print_dots_over_nul(level, function, line, message, formats) ==
  LET ret == IF formats THEN Len(message) ELSE -1
      log_buff == IF ret >= LOG_MESSAGE_MAX_SIZE_BYTES
                    THEN SubSeq(message, 1, LOG_MESSAGE_MAX_SIZE_BYTES - 3)
                           \o <<46, 46, 46>>
                  ELSE message
  IN
  IF ret < 0
    THEN [ret |-> MENDER_FAIL,
          printed |-> <<"error: logger error: log message formatting failed: ",
                        ret>>]
  ELSE [ret |-> MENDER_OK,
        printed |-> IF level = MENDER_LOG_LEVEL_ERR
                      THEN <<"error: ", log_buff>>
                    ELSE IF level = MENDER_LOG_LEVEL_WRN
                      THEN <<"warning: ", log_buff>>
                    ELSE IF level = MENDER_LOG_LEVEL_INF
                      THEN <<"info: ", log_buff>>
                    ELSE IF level = MENDER_LOG_LEVEL_DBG
                      THEN <<"debug ", function, line, log_buff>>
                    ELSE <<>>]

\* vsnprintf returns ret, the length of the whole formatted message, or a
\* negative number when it cannot format (formats is false); it leaves in
\* log_buff what of the message fits before the closing NUL.  A message
\* of LOG_MESSAGE_MAX_SIZE_BYTES or more characters has the last three
\* characters kept replaced by dots.  What is printed is the level's
\* prefix and log_buff, nothing for a level that is none of the four.
mender_log_print(level, function, line, message, formats) ==
  LET ret == IF formats THEN Len(message) ELSE -1
      log_buff == IF ret >= LOG_MESSAGE_MAX_SIZE_BYTES
                    THEN SubSeq(message, 1, LOG_MESSAGE_MAX_SIZE_BYTES - 4)
                           \o <<46, 46, 46>>
                  ELSE message
  IN
  IF ret < 0
    THEN [ret |-> MENDER_FAIL,
          printed |-> <<"error: logger error: log message formatting failed: ",
                        ret>>]
  ELSE [ret |-> MENDER_OK,
        printed |-> IF level = MENDER_LOG_LEVEL_ERR
                      THEN <<"error: ", log_buff>>
                    ELSE IF level = MENDER_LOG_LEVEL_WRN
                      THEN <<"warning: ", log_buff>>
                    ELSE IF level = MENDER_LOG_LEVEL_INF
                      THEN <<"info: ", log_buff>>
                    ELSE IF level = MENDER_LOG_LEVEL_DBG
                      THEN <<"debug ", function, line, log_buff>>
                    ELSE <<>>]

\* The i-th log call of a store operation, mender_log_error(...) and the
\* like: a statement whose value is dropped.  The message is a fixed
\* text; only whether it could be formatted is kept.
Log(level, fault, i) ==
  Call("mender_log_print", level,
       mender_log_print(level, "", 0, <<>>, fault.log[i]).ret = MENDER_OK)

\* The fates of an operation's log calls: log[i] tells whether vsnprintf
\* formats the message of the i-th one.  No operation makes more than
\* two, and a call that is not made has no fate to tell apart.
LogCalls(trace) ==
  SelectSeq(trace, LAMBDA c : c.call = "mender_log_print")
StoreCalls(trace) ==
  SelectSeq(trace, LAMBDA c : c.call # "mender_log_print")
AllFormat == [i \in 1..2 |-> TRUE]
LogFates(n) ==
  {l \in [1..2 -> BOOLEAN] : \A i \in 1..2 : i > n => l[i]}
WithLog(f, l) == [at |-> f.at, k |-> f.k, n |-> f.n, log |-> l]

\* The fault points of an operation, each with every fate of the log
\* calls the operation makes at it.
Logged(faults, Run(_)) ==
  UNION {{WithLog(f, l) :
            l \in LogFates(Len(LogCalls(
                     Run(WithLog(f, AllFormat)).trace)))} :
         f \in faults}

(* ----------------------- mender_storage_write_file -------------------- *)

\* A write_file that opens the file a second time when fopen failed.
write_file_retry(fs, file_path, data, fault) ==
  IF fault.at = "open"
    THEN [ret |-> MENDER_OK,
          fs |-> [fs EXCEPT ![file_path] = Item(data)],
          hit |-> TRUE,
          trace |-> <<Call("fopen", file_path, FALSE),
                      Call("fopen", file_path, TRUE),
                      Call("fwrite", file_path, TRUE)>>]
  ELSE IF fault.at = "write" /\ fault.n < Len(data)
    THEN [ret |-> MENDER_FAIL,
          fs |-> [fs EXCEPT ![file_path] = Item(SubSeq(data, 1, fault.n))],
          hit |-> TRUE,
          trace |-> <<Call("fopen", file_path, TRUE),
                      Call("fwrite", file_path, FALSE)>>]
  ELSE [ret |-> MENDER_OK,
        fs |-> [fs EXCEPT ![file_path] = Item(data)],
        hit |-> FALSE,
        trace |-> <<Call("fopen", file_path, TRUE),
                    Call("fwrite", file_path, TRUE)>>]

\* fopen(file_path, "wb") fails and leaves the item alone, or truncates it;
\* fwrite stores all of data, or only its first n bytes and reports that.
mender_storage_write_file(fs, file_path, data, fault) ==
  IF fault.at = "open"
    THEN [ret |-> MENDER_FAIL, fs |-> fs, hit |-> TRUE,
          trace |-> <<Call("fopen", file_path, FALSE), 
                      Log(MENDER_LOG_LEVEL_ERR, fault, 1)>>]
  ELSE IF fault.at = "write" /\ fault.n < Len(data)
    THEN [ret |-> MENDER_FAIL,
          fs |-> [fs EXCEPT ![file_path] = Item(SubSeq(data, 1, fault.n))],
          hit |-> TRUE,
          trace |-> <<Call("fopen", file_path, TRUE),
                      Call("fwrite", file_path, FALSE),
                      Log(MENDER_LOG_LEVEL_ERR, fault, 1)>>]
  ELSE [ret |-> MENDER_OK,
        fs |-> [fs EXCEPT ![file_path] = Item(data)],
        hit |-> FALSE,
        trace |-> <<Call("fopen", file_path, TRUE),
                    Call("fwrite", file_path, TRUE)>>]

(* ----------------------- mender_storage_read_file --------------------- *)

\* A read_file without the test of the length: an empty item is read
\* like any other.
read_file_any_length(fs, file_path, fault) ==
  LET f == fs[file_path]
      length == Len(f.data)
  IN
  IF ~f.exists \/ fault.at = "open"
    THEN [ret |-> MENDER_NOT_FOUND, data |-> PtrPrior,
          data_length |-> LenPrior, heap |-> <<>>,
          hit |-> f.exists,
          trace |-> <<Call("fopen", file_path, FALSE)>>]
  ELSE IF fault.at = "alloc"
    THEN [ret |-> MENDER_FAIL, data |-> PtrNull,
          data_length |-> LenOf(length), heap |-> <<>>, hit |-> TRUE,
          trace |-> <<Call("fopen", file_path, TRUE),
                      Call("malloc", file_path, FALSE)>>]
  ELSE IF fault.at = "read" /\ length > 0
    THEN [ret |-> MENDER_FAIL, data |-> PtrBuf(1),
          data_length |-> LenOf(length),
          heap |-> <<[bytes |-> <<>>, frees |-> 1]>>,
          hit |-> TRUE,
          trace |-> <<Call("fopen", file_path, TRUE),
                      Call("malloc", file_path, TRUE),
                      Call("fread", file_path, FALSE)>>]
  ELSE [ret |-> MENDER_OK, data |-> PtrBuf(1),
        data_length |-> LenOf(length),
        heap |-> <<[bytes |-> f.data \o <<0>>, frees |-> 0]>>,
        hit |-> FALSE,
        trace |-> <<Call("fopen", file_path, TRUE),
                    Call("malloc", file_path, TRUE),
                    Call("fread", file_path, TRUE)>>]

\* A read_file that returns the item without its last byte.
read_file_short(fs, file_path, fault) ==
  LET bytes == fs[file_path].data
  IN [ret |-> MENDER_OK, data |-> PtrBuf(1),
      data_length |-> LenOf(Len(bytes) - 1),
      heap |-> <<Buf(SubSeq(bytes, 1, Len(bytes) - 1) \o <<0>>)>>,
      hit |-> FALSE,
      trace |-> <<Call("fopen", file_path, TRUE),
                  Call("malloc", file_path, TRUE),
                  Call("fread", file_path, TRUE)>>]

\* The outputs *data and *data_length, the buffers allocated (heap) and
\* the backend calls made.  The buffer holds the item's bytes and a
\* closing NUL.  After a failed fread the buffer is freed and *data still
\* points to it; what the freed buffer held is not modelled (<<>>).
mender_storage_read_file(fs, file_path, fault) ==
  LET f == fs[file_path]
      length == Len(f.data)
  IN
  IF ~f.exists \/ fault.at = "open"
    THEN [ret |-> MENDER_NOT_FOUND, data |-> PtrPrior,
          data_length |-> LenPrior, heap |-> <<>>,
          hit |-> f.exists,
          trace |-> <<Call("fopen", file_path, FALSE)>>]
  ELSE IF length <= 0
    THEN [ret |-> MENDER_NOT_FOUND, data |-> PtrPrior,
          data_length |-> LenPrior, heap |-> <<>>, hit |-> FALSE,
          trace |-> <<Call("fopen", file_path, TRUE),
                      Log(MENDER_LOG_LEVEL_INF, fault, 1)>>]
  ELSE IF fault.at = "alloc"
    THEN [ret |-> MENDER_FAIL, data |-> PtrNull,
          data_length |-> LenOf(length), heap |-> <<>>, hit |-> TRUE,
          trace |-> <<Call("fopen", file_path, TRUE),
                      Call("malloc", file_path, FALSE),
                      Log(MENDER_LOG_LEVEL_ERR, fault, 1)>>]
  ELSE IF fault.at = "read"
    THEN [ret |-> MENDER_FAIL, data |-> PtrBuf(1),
          data_length |-> LenOf(length),
          heap |-> <<Freed(Buf(<<>>))>>,
          hit |-> TRUE,
          trace |-> <<Call("fopen", file_path, TRUE),
                      Call("malloc", file_path, TRUE),
                      Call("fread", file_path, FALSE),
                      Log(MENDER_LOG_LEVEL_ERR, fault, 1)>>]
  ELSE [ret |-> MENDER_OK, data |-> PtrBuf(1),
        data_length |-> LenOf(length),
        heap |-> <<Buf(f.data \o <<0>>)>>, hit |-> FALSE,
        trace |-> <<Call("fopen", file_path, TRUE),
                    Call("malloc", file_path, TRUE),
                    Call("fread", file_path, TRUE)>>]

(* ------------------------------- unlink ------------------------------- *)

\* An unlink that reports success for a path that does not exist.
unlink_absent_ok(fs, path, fault) ==
  IF fs[path].exists /\ fault.at = "unlink"
    THEN [ok |-> FALSE, fs |-> fs, hit |-> TRUE,
          trace |-> <<Call("unlink", path, FALSE)>>]
  ELSE [ok |-> TRUE, fs |-> [fs EXCEPT ![path] = AbsentItem],
        hit |-> FALSE, trace |-> <<Call("unlink", path, TRUE)>>]

\* unlink(path): fails when the item is absent or the backend refuses.
unlink(fs, path, fault) ==
  IF ~fs[path].exists \/ fault.at = "unlink"
    THEN [ok |-> FALSE, fs |-> fs, hit |-> fs[path].exists,
          trace |-> <<Call("unlink", path, FALSE)>>]
  ELSE [ok |-> TRUE, fs |-> [fs EXCEPT ![path] = AbsentItem],
        hit |-> FALSE, trace |-> <<Call("unlink", path, TRUE)>>]

(* ------------------------- authentication keys ------------------------ *)

\* A set_authentication_keys that goes on to the public key after the
\* private key write failed, and reports the public key write's result.
set_authentication_keys_continue(fs, private_key, public_key, fault) ==
  LET w1 == mender_storage_write_file(fs, MENDER_STORAGE_NVS_PRIVATE_KEY,
                                      private_key, FaultOn(fault, 1))
      w2 == mender_storage_write_file(w1.fs, MENDER_STORAGE_NVS_PUBLIC_KEY,
                                      public_key, FaultOn(fault, 2))
  IN [ret |-> w2.ret, fs |-> w2.fs, hit |-> w1.hit \/ w2.hit,
      trace |-> w1.trace \o w2.trace]

mender_storage_set_authentication_keys(fs, private_key, public_key, fault) ==
  LET w1 == mender_storage_write_file(fs, MENDER_STORAGE_NVS_PRIVATE_KEY,
                                      private_key, FaultOn(fault, 1))
  IN
  IF w1.ret # MENDER_OK
    THEN [ret |-> MENDER_FAIL, fs |-> w1.fs, hit |-> w1.hit,
          trace |-> w1.trace]
  ELSE
    LET w2 == mender_storage_write_file(w1.fs,
                                        MENDER_STORAGE_NVS_PUBLIC_KEY,
                                        public_key, FaultOn(fault, 2))
    IN [ret |-> IF w2.ret # MENDER_OK THEN MENDER_FAIL ELSE MENDER_OK,
        fs |-> w2.fs, hit |-> w2.hit, trace |-> w1.trace \o w2.trace]

\* The pointer p of a second read, whose buffers follow the n of the first.
Rebase(p, n) == IF p.tag = "buf" THEN PtrBuf(p.id + n) ELSE p

\* A get_authentication_keys that returns on a failed public key read
\* without releasing the private key.
get_authentication_keys_leak(fs, fault) ==
  LET r1 == mender_storage_read_file(fs, MENDER_STORAGE_NVS_PRIVATE_KEY,
                                     FaultOn(fault, 1))
      r2 == mender_storage_read_file(fs, MENDER_STORAGE_NVS_PUBLIC_KEY,
                                     FaultOn(fault, 2))
  IN
  IF r1.ret # MENDER_OK
    THEN [ret |-> MENDER_NOT_FOUND, hit |-> r1.hit, trace |-> r1.trace,
          heap |-> r1.heap,
          out |-> [private_key |-> r1.data,
                   private_key_length |-> r1.data_length,
                   public_key |-> PtrPrior,
                   public_key_length |-> LenPrior]]
  ELSE
    [ret |-> IF r2.ret # MENDER_OK THEN MENDER_NOT_FOUND ELSE MENDER_OK,
     hit |-> r2.hit, trace |-> r1.trace \o r2.trace,
     heap |-> r1.heap \o r2.heap,
     out |-> [private_key |-> r1.data,
              private_key_length |-> r1.data_length,
              public_key |-> Rebase(r2.data, Len(r1.heap)),
              public_key_length |-> r2.data_length]]

\* A get_authentication_keys that returns what read_file returned for the
\* key it could not read.
get_authentication_keys_passes_failure(fs, fault) ==
  LET r1 == mender_storage_read_file(fs, MENDER_STORAGE_NVS_PRIVATE_KEY,
                                     FaultOn(fault, 1))
      r2 == mender_storage_read_file(fs, MENDER_STORAGE_NVS_PUBLIC_KEY,
                                     FaultOn(fault, 2))
  IN
  IF r1.ret # MENDER_OK
    THEN [ret |-> r1.ret, hit |-> r1.hit, trace |-> r1.trace,
          heap |-> r1.heap,
          out |-> [private_key |-> r1.data,
                   private_key_length |-> r1.data_length,
                   public_key |-> PtrPrior,
                   public_key_length |-> LenPrior]]
  ELSE IF r2.ret # MENDER_OK
    THEN [ret |-> r2.ret, hit |-> r2.hit,
          trace |-> r1.trace \o r2.trace,
          heap |-> <<Freed(r1.heap[1])>> \o r2.heap,
          out |-> [private_key |-> PtrNull,
                   private_key_length |-> LenOf(0),
                   public_key |-> Rebase(r2.data, Len(r1.heap)),
                   public_key_length |-> r2.data_length]]
  ELSE [ret |-> MENDER_OK, hit |-> FALSE, trace |-> r1.trace \o r2.trace,
        heap |-> r1.heap \o r2.heap,
        out |-> [private_key |-> r1.data,
                 private_key_length |-> r1.data_length,
                 public_key |-> Rebase(r2.data, Len(r1.heap)),
                 public_key_length |-> r2.data_length]]

\* The private key is read, then the public key; any result of read_file
\* other than MENDER_OK becomes MENDER_NOT_FOUND, and the private key read
\* before is freed and its outputs reset when the public key's read fails.
mender_storage_get_authentication_keys(fs, fault) ==
  LET r1 == mender_storage_read_file(fs, MENDER_STORAGE_NVS_PRIVATE_KEY,
                                     FaultOn(fault, 1))
      r2 == mender_storage_read_file(fs, MENDER_STORAGE_NVS_PUBLIC_KEY,
                                     FaultOn(fault, 2))
  IN
  IF r1.ret # MENDER_OK
    THEN [ret |-> MENDER_NOT_FOUND, hit |-> r1.hit, trace |-> r1.trace,
          heap |-> r1.heap,
          out |-> [private_key |-> r1.data,
                   private_key_length |-> r1.data_length,
                   public_key |-> PtrPrior,
                   public_key_length |-> LenPrior]]
  ELSE IF r2.ret # MENDER_OK
    THEN [ret |-> MENDER_NOT_FOUND, hit |-> r2.hit,
          trace |-> r1.trace \o r2.trace,
          heap |-> <<Freed(r1.heap[1])>> \o r2.heap,
          out |-> [private_key |-> PtrNull,
                   private_key_length |-> LenOf(0),
                   public_key |-> Rebase(r2.data, Len(r1.heap)),
                   public_key_length |-> r2.data_length]]
  ELSE [ret |-> MENDER_OK, hit |-> FALSE, trace |-> r1.trace \o r2.trace,
        heap |-> r1.heap \o r2.heap,
        out |-> [private_key |-> r1.data,
                 private_key_length |-> r1.data_length,
                 public_key |-> Rebase(r2.data, Len(r1.heap)),
                 public_key_length |-> r2.data_length]]

\* A delete_authentication_keys whose test joins the two unlink results
\* with && in place of ||: the public key is unlinked only when the
\* private key's unlink failed, and the call fails only when both did.
delete_authentication_keys_and(fs, fault) ==
  LET u1 == unlink(fs, MENDER_STORAGE_NVS_PRIVATE_KEY, FaultOn(fault, 1))
  IN
  IF u1.ok
    THEN [ret |-> MENDER_OK, fs |-> u1.fs, hit |-> u1.hit,
          trace |-> u1.trace]
  ELSE
    LET u2 == unlink(u1.fs, MENDER_STORAGE_NVS_PUBLIC_KEY, FaultOn(fault, 2))
    IN [ret |-> IF u2.ok THEN MENDER_OK ELSE MENDER_FAIL, fs |-> u2.fs,
        hit |-> u1.hit \/ u2.hit, trace |-> u1.trace \o u2.trace]

\* A delete_authentication_keys that unlinks both items whatever the first
\* unlink returned, and fails when either did.
delete_authentication_keys_both(fs, fault) ==
  LET u1 == unlink(fs, MENDER_STORAGE_NVS_PRIVATE_KEY, FaultOn(fault, 1))
      u2 == unlink(u1.fs, MENDER_STORAGE_NVS_PUBLIC_KEY, FaultOn(fault, 2))
  IN [ret |-> IF u1.ok /\ u2.ok THEN MENDER_OK ELSE MENDER_FAIL,
      fs |-> u2.fs, hit |-> u1.hit \/ u2.hit,
      trace |-> IF u1.ok /\ u2.ok THEN u1.trace \o u2.trace
                ELSE u1.trace \o u2.trace
                       \o <<Log(MENDER_LOG_LEVEL_ERR, fault, 1)>>]

\* unlink of the private key, then (|| evaluates its right side only when
\* the left is false) unlink of the public key.
mender_storage_delete_authentication_keys(fs, fault) ==
  LET u1 == unlink(fs, MENDER_STORAGE_NVS_PRIVATE_KEY, FaultOn(fault, 1))
  IN
  IF ~u1.ok
    THEN [ret |-> MENDER_FAIL, fs |-> u1.fs, hit |-> u1.hit,
          trace |-> u1.trace \o <<Log(MENDER_LOG_LEVEL_ERR, fault, 1)>>]
  ELSE
    LET u2 == unlink(u1.fs, MENDER_STORAGE_NVS_PUBLIC_KEY, FaultOn(fault, 2))
    IN [ret |-> IF u2.ok THEN MENDER_OK ELSE MENDER_FAIL, fs |-> u2.fs,
        hit |-> u2.hit,
        trace |-> IF u2.ok THEN u1.trace \o u2.trace
                  ELSE u1.trace \o u2.trace \o <<Log(MENDER_LOG_LEVEL_ERR, fault, 1)>>]

(* ---------------------------- update state --------------------------- *)

\* fwrite(&state, 1, sizeof(state), f) and fread(state, sizeof(*state), 1,
\* f) copy the value's bytes as they lie in memory: least significant
\* byte first on the Posix targets.
EncodeState(state) == [i \in 1..StateSize |-> (state \div (256 ^ (i - 1))) % 256]

RECURSIVE DecodeState(_)
DecodeState(bytes) ==
  IF bytes = <<>> THEN 0 ELSE Head(bytes) + 256 * DecodeState(Tail(bytes))

\* The caller's *state: untouched, assigned a value, or indeterminate
\* after an fread that failed part way through the value.
StatePrior == [tag |-> "prior", val |-> 0]
StateValue(v) == [tag |-> "value", val |-> v]
StateIndeterminate == [tag |-> "indeterminate", val |-> 0]

\* fopen("wb") truncates the item; the state's bytes are written, then the
\* artifact type's strlen bytes, with no length and no terminator.
mender_storage_save_update_state(fs, state, artifact_type, fault) ==
  LET path == MENDER_STORAGE_NVS_UPDATE_STATE
      bytes == EncodeState(state)
  IN
  IF fault.at = "open"
    THEN [ret |-> MENDER_FAIL, fs |-> fs, hit |-> TRUE,
          trace |-> <<Call("fopen", path, FALSE), Log(MENDER_LOG_LEVEL_ERR, fault, 1)>>]
  ELSE IF fault.at = "write" /\ fault.k = 1 /\ fault.n < StateSize
    THEN [ret |-> MENDER_FAIL,
          fs |-> [fs EXCEPT ![path] = Item(SubSeq(bytes, 1, fault.n))],
          hit |-> TRUE,
          trace |-> <<Call("fopen", path, TRUE),
                      Call("fwrite", path, FALSE),
                      Log(MENDER_LOG_LEVEL_ERR, fault, 1)>>]
  ELSE IF fault.at = "write" /\ fault.k = 2 /\ fault.n < Len(artifact_type)
    THEN [ret |-> MENDER_FAIL,
          fs |-> [fs EXCEPT ![path] =
                    Item(bytes \o SubSeq(artifact_type, 1, fault.n))],
          hit |-> TRUE,
          trace |-> <<Call("fopen", path, TRUE),
                      Call("fwrite", path, TRUE),
                      Call("fwrite", path, FALSE),
                      Log(MENDER_LOG_LEVEL_ERR, fault, 1)>>]
  ELSE [ret |-> MENDER_OK,
        fs |-> [fs EXCEPT ![path] = Item(bytes \o artifact_type)],
        hit |-> FALSE,
        trace |-> <<Call("fopen", path, TRUE),
                    Call("fwrite", path, TRUE),
                    Call("fwrite", path, TRUE)>>]

\* A length check that takes every non-empty record for a whole one.
update_state_length_unchecked(length) ==
  IF length <= 0 THEN MENDER_NOT_FOUND ELSE MENDER_OK

\* A length check that asks for the state value only.
update_state_length_state_only(length) ==
  IF length <= 0 THEN MENDER_NOT_FOUND
  ELSE IF length < StateSize THEN MENDER_FAIL
  ELSE MENDER_OK

\* The two checks of the item's length in get_update_state: MENDER_OK
\* stands for passing both.
update_state_length_check(length) ==
  IF length <= 0 THEN MENDER_NOT_FOUND
  ELSE IF length < StateSize + 2 THEN MENDER_FAIL
  ELSE MENDER_OK

\* The outputs *state and *artifact_type, the buffer allocated and the
\* backend calls made; fs is returned as it was passed, since the function
\* only reads.  *state is assigned before the buffer for the artifact
\* type is allocated.  The buffer is calloc'ed one byte longer than the
\* rest of the record, so it ends with a NUL.
mender_storage_get_update_state(fs, fault) ==
  LET path == MENDER_STORAGE_NVS_UPDATE_STATE
      f == fs[path]
      length == Len(f.data)
      check == update_state_length_check(length)
      opened == <<Call("fopen", path, TRUE)>>
  IN
  IF ~f.exists \/ fault.at = "open"
    THEN [ret |-> MENDER_NOT_FOUND, fs |-> fs, hit |-> f.exists,
          heap |-> <<>>,
          trace |-> <<Call("fopen", path, FALSE), Log(MENDER_LOG_LEVEL_DBG, fault, 1)>>,
          out |-> [state |-> StatePrior, artifact_type |-> PtrPrior]]
  ELSE IF check # MENDER_OK
    THEN [ret |-> check, fs |-> fs, hit |-> FALSE, heap |-> <<>>,
          trace |-> opened \o <<IF check = MENDER_NOT_FOUND
                                   THEN Log(MENDER_LOG_LEVEL_DBG, fault, 1)
                                   ELSE Log(MENDER_LOG_LEVEL_ERR, fault, 1)>>,
          out |-> [state |-> StatePrior, artifact_type |-> PtrPrior]]
  ELSE IF (fault.at = "read" /\ fault.k = 1) \/ length < StateSize
    THEN [ret |-> MENDER_FAIL, fs |-> fs,
          hit |-> (fault.at = "read" /\ fault.k = 1), heap |-> <<>>,
          trace |-> opened \o <<Call("fread", path, FALSE),
                                Log(MENDER_LOG_LEVEL_ERR, fault, 1)>>,
          out |-> [state |-> IF fault.at = "read" /\ fault.k = 1
                                  /\ fault.n = 0
                               THEN StatePrior ELSE StateIndeterminate,
                   artifact_type |-> PtrPrior]]
  ELSE IF fault.at = "alloc"
    THEN [ret |-> MENDER_FAIL, fs |-> fs, hit |-> TRUE, heap |-> <<>>,
          trace |-> opened \o <<Call("fread", path, TRUE),
                                Call("calloc", path, FALSE),
                                Log(MENDER_LOG_LEVEL_ERR, fault, 1)>>,
          out |-> [state |->
                     StateValue(DecodeState(SubSeq(f.data, 1, StateSize))),
                   artifact_type |-> PtrNull]]
  ELSE IF fault.at = "read" /\ fault.k = 2
    THEN [ret |-> MENDER_FAIL, fs |-> fs, hit |-> TRUE,
          heap |-> <<Freed(Buf(<<>>))>>,
          trace |-> opened \o <<Call("fread", path, TRUE),
                                Call("calloc", path, TRUE),
                                Call("fread", path, FALSE),
                                Log(MENDER_LOG_LEVEL_ERR, fault, 1)>>,
          out |-> [state |->
                     StateValue(DecodeState(SubSeq(f.data, 1, StateSize))),
                   artifact_type |-> PtrBuf(1)]]
  ELSE [ret |-> MENDER_OK, fs |-> fs, hit |-> FALSE,
        heap |-> <<Buf(SubSeq(f.data, StateSize + 1, length) \o <<0>>)>>,
        trace |-> opened \o <<Call("fread", path, TRUE),
                              Call("calloc", path, TRUE),
                              Call("fread", path, TRUE)>>,
        out |-> [state |->
                   StateValue(DecodeState(SubSeq(f.data, 1, StateSize))),
                 artifact_type |-> PtrBuf(1)]]

\* A delete_update_state that returns what its log call returned when
\* unlink failed.
delete_update_state_log_result(fs, fault) ==
  LET u == unlink(fs, MENDER_STORAGE_NVS_UPDATE_STATE, fault)
  IN [ret |-> IF u.ok \/ fault.log[1] THEN MENDER_OK ELSE MENDER_FAIL,
      fs |-> u.fs, hit |-> u.hit,
      trace |-> IF u.ok THEN u.trace
                ELSE u.trace \o <<Log(MENDER_LOG_LEVEL_ERR, fault, 1)>>]

\* unlink of the item; a failure is logged and returned as MENDER_FAIL.
mender_storage_delete_update_state(fs, fault) ==
  LET u == unlink(fs, MENDER_STORAGE_NVS_UPDATE_STATE, fault)
  IN [ret |-> IF u.ok THEN MENDER_OK ELSE MENDER_FAIL, fs |-> u.fs,
      hit |-> u.hit,
      trace |-> IF u.ok THEN u.trace ELSE u.trace \o <<Log(MENDER_LOG_LEVEL_ERR, fault, 1)>>]

(* --------------------------- deployment data -------------------------- *)

\* The length strlen finds for the caller's data, which the caller ends
\* with a NUL: the bytes before the first NUL.
strlen(str) == Len(CStr(str \o <<0>>))

\* A set_deployment_data that writes the terminating NUL with the data.
set_deployment_data_terminated(fs, deployment_data, fault) ==
  LET w == mender_storage_write_file(
             fs, MENDER_STORAGE_NVS_DEPLOYMENT_DATA,
             SubSeq(deployment_data \o <<0>>, 1, strlen(deployment_data) + 1),
             fault)
  IN [ret |-> IF w.ret # MENDER_OK THEN MENDER_FAIL ELSE MENDER_OK,
      fs |-> w.fs, hit |-> w.hit, trace |-> w.trace]

\* The data is a char *: strlen(deployment_data) bytes of it are written.
mender_storage_set_deployment_data(fs, deployment_data, fault) ==
  LET w == mender_storage_write_file(
             fs, MENDER_STORAGE_NVS_DEPLOYMENT_DATA,
             SubSeq(deployment_data, 1, strlen(deployment_data)), fault)
  IN [ret |-> IF w.ret # MENDER_OK THEN MENDER_FAIL ELSE MENDER_OK,
      fs |-> w.fs, hit |-> w.hit, trace |-> w.trace]

\* Every result of read_file other than MENDER_OK becomes MENDER_NOT_FOUND.
mender_storage_get_deployment_data(fs, fault) ==
  LET r == mender_storage_read_file(fs, MENDER_STORAGE_NVS_DEPLOYMENT_DATA,
                                    fault)
  IN [ret |-> IF r.ret # MENDER_OK THEN MENDER_NOT_FOUND ELSE MENDER_OK,
      fs |-> fs, hit |-> r.hit, heap |-> r.heap, trace |-> r.trace,
      out |-> [deployment_data |-> r.data]]

\* A delete_deployment_data that does not test what unlink returned.
delete_deployment_data_unchecked(fs, fault) ==
  LET u == unlink(fs, MENDER_STORAGE_NVS_DEPLOYMENT_DATA, fault)
  IN [ret |-> MENDER_OK, fs |-> u.fs, hit |-> u.hit, trace |-> u.trace]

mender_storage_delete_deployment_data(fs, fault) ==
  LET u == unlink(fs, MENDER_STORAGE_NVS_DEPLOYMENT_DATA, fault)
  IN [ret |-> IF u.ok THEN MENDER_OK ELSE MENDER_FAIL, fs |-> u.fs,
      hit |-> u.hit,
      trace |-> IF u.ok THEN u.trace ELSE u.trace \o <<Log(MENDER_LOG_LEVEL_ERR, fault, 1)>>]

(* ------------------------------ provides ------------------------------ *)

\* The pieces of str between occurrences of sep.
RECURSIVE SplitOn(_, _)
SplitOn(str, sep) ==
  IF \A i \in 1..Len(str) : str[i] # sep THEN <<str>>
  ELSE LET i == CHOOSE j \in 1..Len(str) :
                  str[j] = sep /\ \A h \in 1..(j - 1) : str[h] # sep
       IN <<SubSeq(str, 1, i - 1)>>
            \o SplitOn(SubSeq(str, i + 1, Len(str)), sep)

\* The textual encoding of a provides list read back: one key=value pair
\* per line; empty lines are skipped and a line without "=" fails the
\* whole decoding.
mender_utils_string_to_key_value_list(str) ==
  LET lines == SelectSeq(SplitOn(str, 10), LAMBDA l : l # <<>>)
      ok == \A i \in 1..Len(lines) : \E j \in 1..Len(lines[i]) :
              lines[i][j] = 61
      pair(l) == LET kv == SplitOn(l, 61)
                 IN [key |-> kv[1],
                     value |-> SubSeq(l, Len(kv[1]) + 2, Len(l))]
  IN IF ok
       THEN [ret |-> MENDER_OK,
             list |-> [i \in 1..Len(lines) |-> pair(lines[i])]]
       ELSE [ret |-> MENDER_FAIL, list |-> <<>>]

\* The textual encoding of a provides list: key=value, one pair per
\* line, the lines separated by newlines.
RECURSIVE mender_utils_key_value_list_to_string(_)
mender_utils_key_value_list_to_string(list) ==
  IF list = <<>> THEN <<>>
  ELSE LET line == list[1].key \o <<61>> \o list[1].value
       IN IF Len(list) = 1 THEN line
          ELSE line \o <<10>> \o mender_utils_key_value_list_to_string(Tail(list))

\* A set_provides that stores its text without the last character.
set_provides_clipped(fs, provides, fault) ==
  LET str == mender_utils_key_value_list_to_string(provides)
      w == mender_storage_write_file(fs, MENDER_STORAGE_NVS_PROVIDES,
                                     SubSeq(str, 1, Len(str) - 1), fault)
  IN [ret |-> IF w.ret # MENDER_OK THEN MENDER_FAIL ELSE MENDER_OK,
      fs |-> w.fs, hit |-> w.hit, trace |-> w.trace]

\* The list is encoded (the encoder may fail: nothing is written then),
\* strlen bytes of the text are written and the text is freed.
mender_storage_set_provides(fs, provides, fault) ==
  IF fault.at = "encode"
    THEN [ret |-> MENDER_FAIL, fs |-> fs, hit |-> TRUE,
          trace |-> <<Call("to_string", MENDER_STORAGE_NVS_PROVIDES, FALSE)>>]
  ELSE
    LET str == mender_utils_key_value_list_to_string(provides)
        w == mender_storage_write_file(fs, MENDER_STORAGE_NVS_PROVIDES,
                                       SubSeq(str, 1, strlen(str)), fault)
    IN [ret |-> IF w.ret # MENDER_OK THEN MENDER_FAIL ELSE MENDER_OK,
        fs |-> w.fs, hit |-> w.hit,
        trace |-> <<Call("to_string", MENDER_STORAGE_NVS_PROVIDES, TRUE)>>
                    \o w.trace]

\* The list is left alone unless the text decodes; the text buffer is
\* freed on both paths after a successful read.
mender_storage_get_provides(fs, fault) ==
  LET r == mender_storage_read_file(fs, MENDER_STORAGE_NVS_PROVIDES, fault)
  IN
  IF r.ret # MENDER_OK
    THEN [ret |-> MENDER_NOT_FOUND, fs |-> fs, hit |-> r.hit,
          heap |-> r.heap, trace |-> r.trace,
          out |-> [provides |-> None_list]]
  ELSE
    LET d == mender_utils_string_to_key_value_list(CStr(r.heap[1].bytes))
    IN [ret |-> IF d.ret # MENDER_OK THEN MENDER_FAIL ELSE MENDER_OK,
        fs |-> fs, hit |-> FALSE, heap |-> <<Freed(r.heap[1])>>,
        trace |-> IF d.ret # MENDER_OK
                    THEN r.trace \o <<Log(MENDER_LOG_LEVEL_ERR, fault, 1)>>
                  ELSE r.trace,
        out |-> [provides |-> IF d.ret # MENDER_OK THEN None_list
                              ELSE [set |-> TRUE, list |-> d.list]]]

mender_storage_delete_provides(fs, fault) ==
  LET u == unlink(fs, MENDER_STORAGE_NVS_PROVIDES, fault)
  IN [ret |-> IF u.ok THEN MENDER_OK ELSE MENDER_FAIL, fs |-> u.fs,
      hit |-> u.hit,
      trace |-> IF u.ok THEN u.trace ELSE u.trace \o <<Log(MENDER_LOG_LEVEL_ERR, fault, 1)>>]

(* ----------------------------- artifact name -------------------------- *)

\* The characters of "unknown".
Unknown == <<117, 110, 107, 110, 111, 119, 110>>

\* A set_artifact_name that leaves the last character out.
set_artifact_name_clipped(fs, artifact_name, fault) ==
  LET w == mender_storage_write_file(
             fs, MENDER_STORAGE_NVS_ARTICACT_NAME,
             SubSeq(artifact_name, 1, Len(artifact_name) - 1), fault)
  IN [ret |-> IF w.ret # MENDER_OK THEN MENDER_FAIL ELSE MENDER_OK,
      fs |-> w.fs, hit |-> w.hit, trace |-> w.trace]

mender_storage_set_artifact_name(fs, artifact_name, fault) ==
  LET w == mender_storage_write_file(fs, MENDER_STORAGE_NVS_ARTICACT_NAME,
                                     artifact_name, fault)
  IN [ret |-> IF w.ret # MENDER_OK THEN MENDER_FAIL ELSE MENDER_OK,
      fs |-> w.fs, hit |-> w.hit, trace |-> w.trace]

\* A get_artifact_name that stores the default when it answers with it.
get_artifact_name_stores_default(fs, fault, strdup_ok) ==
  LET r == mender_storage_read_file(fs, MENDER_STORAGE_NVS_ARTICACT_NAME,
                                    fault)
  IN
  IF r.ret = MENDER_NOT_FOUND
    THEN [ret |-> MENDER_OK,
          fs |-> [fs EXCEPT ![MENDER_STORAGE_NVS_ARTICACT_NAME] =
                    Item(Unknown)],
          hit |-> r.hit \/ ~strdup_ok,
          heap |-> IF strdup_ok THEN <<Buf(Unknown \o <<0>>)>> ELSE <<>>,
          trace |-> r.trace
                      \o <<Call("strdup", MENDER_STORAGE_NVS_ARTICACT_NAME,
                                strdup_ok)>>,
          out |-> [artifact_name |->
                     IF strdup_ok THEN PtrBuf(1) ELSE PtrNull]]
  ELSE [ret |-> r.ret, fs |-> fs, hit |-> r.hit, heap |-> r.heap,
        trace |-> r.trace \o <<Log(MENDER_LOG_LEVEL_ERR, fault, 2)>>,
        out |-> [artifact_name |-> r.data]]

\* A get_artifact_name that hands read_file's result on as it is.
get_artifact_name_no_default(fs, fault, strdup_ok) ==
  LET r == mender_storage_read_file(fs, MENDER_STORAGE_NVS_ARTICACT_NAME,
                                    fault)
  IN [ret |-> r.ret, fs |-> fs, hit |-> r.hit, heap |-> r.heap,
      trace |-> r.trace, out |-> [artifact_name |-> r.data]]

\* A get_artifact_name that answers every failed read with the default.
get_artifact_name_always_default(fs, fault, strdup_ok) ==
  LET r == mender_storage_read_file(fs, MENDER_STORAGE_NVS_ARTICACT_NAME,
                                    fault)
  IN
  IF r.ret # MENDER_OK
    THEN [ret |-> MENDER_OK, fs |-> fs, hit |-> r.hit \/ ~strdup_ok,
          heap |-> r.heap
                     \o (IF strdup_ok THEN <<Buf(Unknown \o <<0>>)>>
                         ELSE <<>>),
          trace |-> r.trace
                      \o <<Call("strdup", MENDER_STORAGE_NVS_ARTICACT_NAME,
                                strdup_ok)>>,
          out |-> [artifact_name |->
                     IF strdup_ok THEN PtrBuf(Len(r.heap) + 1) ELSE PtrNull]]
  ELSE [ret |-> r.ret, fs |-> fs, hit |-> r.hit, heap |-> r.heap,
        trace |-> r.trace, out |-> [artifact_name |-> r.data]]

\* MENDER_NOT_FOUND from read_file is replaced by MENDER_OK with a
\* strdup of "unknown", whose result (NULL when strdup_ok is false) is
\* not checked; any other result of read_file is returned as it is.
mender_storage_get_artifact_name(fs, fault, strdup_ok) ==
  LET r == mender_storage_read_file(fs, MENDER_STORAGE_NVS_ARTICACT_NAME,
                                    fault)
  IN
  IF r.ret = MENDER_NOT_FOUND
    THEN [ret |-> MENDER_OK, fs |-> fs, hit |-> r.hit \/ ~strdup_ok,
          heap |-> IF strdup_ok THEN <<Buf(Unknown \o <<0>>)>> ELSE <<>>,
          trace |-> r.trace
                      \o <<Call("strdup", MENDER_STORAGE_NVS_ARTICACT_NAME,
                                strdup_ok)>>,
          out |-> [artifact_name |->
                     IF strdup_ok THEN PtrBuf(1) ELSE PtrNull]]
  ELSE [ret |-> r.ret, fs |-> fs, hit |-> r.hit, heap |-> r.heap,
        trace |-> IF r.ret # MENDER_OK
                    THEN r.trace \o <<Log(MENDER_LOG_LEVEL_ERR, fault, 2)>>
                  ELSE r.trace,
        out |-> [artifact_name |-> r.data]]

(* --------------------------- weak scheduler --------------------------- *)

\* The weak definitions a platform without a scheduler links: each
\* ignores its arguments and returns a constant.
mender_scheduler_init == MENDER_OK

mender_scheduler_activate(func, interval) == MENDER_NOT_IMPLEMENTED

mender_scheduler_exit == MENDER_OK

\* *handle is not assigned.
mender_scheduler_mutex_create(handle) ==
  [ret |-> MENDER_NOT_IMPLEMENTED, handle |-> handle]

\* A mutex_take that tells its caller the mutex is taken.
scheduler_mutex_take_pretend(handle, delay_ms) == MENDER_OK

mender_scheduler_mutex_take(handle, delay_ms) == MENDER_NOT_IMPLEMENTED

mender_scheduler_mutex_give(handle) == MENDER_NOT_IMPLEMENTED

mender_scheduler_mutex_delete(handle) == MENDER_NOT_IMPLEMENTED

(* ------------------------------- state -------------------------------- *)

\* The test application when main is entered: no option parsed, no
\* client call made, the events mutex free, no thread of the client, no
\* signal handler running.  left records the goto main has taken, if
\* any: where it left the straight path to the wait.
AppStart ==
  [main |-> "sigaction", ret |-> "EXIT_SUCCESS", calls |-> <<>>,
   left |-> "none", owner |-> "none", worker |-> "none",
   handler |-> "idle", on |-> "none", signo |-> "none", restarts |-> 0,
   signals |-> 0, activated |-> FALSE, notified |-> FALSE]

\* files is the store's state and app the test application's.  last,
\* hist and fresh are history variables: they record what was called and
\* returned and are read by no operation.
VARIABLES
  app,     \* the test application: where main, the client's thread and
           \* the signal handler stand, who holds the events mutex
  files,   \* the store: item name -> [exists, data]
  last,    \* the most recent call: operation, arguments, result, outputs,
           \* buffers allocated, backend calls made, whether a fault hit
  hist,    \* per record kind, the argument tuples passed to its set calls
  fresh    \* per record kind, the arguments of the latest set call if it
           \* returned Ok and no set or delete of the kind was called
           \* since, with the arguments of the set call before it if
           \* that one returned Ok too; or that a delete returned Ok and
           \* no set or delete of the kind was called since

vars == <<app, files, last, hist, fresh>>

Kinds == {"keys", "deployment", "state", "provides", "name"}

None == [some |-> FALSE, deleted |-> FALSE, val |-> <<>>, prior |-> <<>>]
Some(v, p) == [some |-> TRUE, deleted |-> FALSE, val |-> v, prior |-> p]
Deleted == [some |-> FALSE, deleted |-> TRUE, val |-> <<>>, prior |-> <<>>]

NoCall ==
  [op |-> "none", ret |-> MENDER_OK, hit |-> FALSE, arg |-> <<>>,
   out |-> <<>>, heap |-> <<>>, trace |-> <<>>]

\* After mender_storage_init on a device that never stored anything.
Init ==
  /\ app = AppStart
  /\ files = [i \in Items |-> AbsentItem]
  /\ last = NoCall
  /\ hist = [k \in Kinds |-> {}]
  /\ fresh = [k \in Kinds |-> None]

\* At most MaxHist distinct argument tuples are passed per record kind.
Remembered(kind, args) ==
  args \in hist[kind] \/ Cardinality(hist[kind]) < MaxHist

\* The ghost variables after a set call of `kind` with `args`.
NoteSet(kind, args, ret) ==
  /\ hist' = [hist EXCEPT ![kind] = @ \cup {args}]
  /\ fresh' = [fresh EXCEPT
                 ![kind] = IF ret # MENDER_OK THEN None
                           ELSE Some(args, IF @.some THEN <<@.val>>
                                           ELSE <<>>)]

\* The ghost variables after a delete call of `kind`.
NoteDelete(kind, ret) ==
  /\ hist' = hist
  /\ fresh' = [fresh EXCEPT
                 ![kind] = IF ret = MENDER_OK THEN Deleted ELSE None]

(* ------------------------------- inputs ------------------------------- *)

\* The first n of the bytes 1, 2, 3, ...
Ramp(n) == [i \in 1..n |-> i]

\* Non-empty keys, one of each length; a shorter one is a prefix of a
\* longer one, as a key cut short by a failed write is.
Keys == { Ramp(n) : n \in 1..MaxKeyLen }

WriteFaults(data, k) ==
  {[at |-> "open", k |-> k, n |-> 0]}
    \cup {[at |-> "write", k |-> k, n |-> n] : n \in 0..(Len(data) - 1)}
ReadFaults(k) == {[at |-> a, k |-> k, n |-> 0] : a \in {"open", "alloc", "read"}}
UnlinkFaults(k) == {[at |-> "unlink", k |-> k, n |-> 0]}

\* The first n of the characters "a", "b", "c", ...
Letters(n) == [i \in 1..n |-> 96 + i]

\* Artifact types, one of each length from the empty string on.
ArtifactTypes == { Letters(n) : n \in 0..MaxTypeLen }
States == 0..MaxState

SaveFaults(artifact_type) ==
  {[at |-> "open", k |-> 1, n |-> 0]}
    \cup {[at |-> "write", k |-> 1, n |-> n] : n \in 0..(StateSize - 1)}
    \cup {[at |-> "write", k |-> 2, n |-> n] :
            n \in 0..(Len(artifact_type) - 1)}
GetStateFaults ==
  {[at |-> "open", k |-> 1, n |-> 0], [at |-> "alloc", k |-> 1, n |-> 0],
   [at |-> "read", k |-> 2, n |-> 0]}
    \cup {[at |-> "read", k |-> 1, n |-> n] : n \in {0, 1}}

\* Deployment data and artifact names, one of each length.
Texts == { Letters(n) : n \in 0..MaxTextLen }

\* What is written of deployment data is the string it holds.
DeploymentDataFaults(deployment_data) ==
  {NoFault}
    \cup WriteFaults(SubSeq(deployment_data, 1, strlen(deployment_data)), 1)

\* The encoding of the list can fail before anything is written.
ProvidesFaults(provides) ==
  {NoFault, [at |-> "encode", k |-> 1, n |-> 0]}
    \cup WriteFaults(mender_utils_key_value_list_to_string(provides), 1)

(* ------------------------------ actions ------------------------------- *)

SetAuthenticationKeys ==
  \E private_key \in Keys, public_key \in Keys :
    \E fault \in Logged(
                     {NoFault}
                       \cup WriteFaults(private_key, 1)
                       \cup WriteFaults(public_key, 2),
                     LAMBDA f : mender_storage_set_authentication_keys(
                                  files, private_key, public_key, f)) :
      LET r == mender_storage_set_authentication_keys(
                 files, private_key, public_key, fault)
      IN /\ Remembered("keys", <<private_key, public_key>>)
         /\ files' = r.fs
         /\ last' = [op |-> "set_authentication_keys", ret |-> r.ret,
                     hit |-> r.hit,
                     arg |-> [private_key |-> private_key,
                              public_key |-> public_key],
                     out |-> <<>>, heap |-> <<>>, trace |-> r.trace]
         /\ NoteSet("keys", <<private_key, public_key>>, r.ret)
         /\ UNCHANGED app

GetAuthenticationKeys ==
  \E fault \in Logged(
                   {NoFault}
                     \cup ReadFaults(1)
                     \cup ReadFaults(2),
                   LAMBDA f : mender_storage_get_authentication_keys(
                                files, f)) :
    LET r == mender_storage_get_authentication_keys(files, fault)
    IN /\ last' = [op |-> "get_authentication_keys", ret |-> r.ret,
                   hit |-> r.hit, arg |-> <<>>, out |-> r.out,
                   heap |-> r.heap, trace |-> r.trace]
       /\ UNCHANGED <<app, files, hist, fresh>>

DeleteAuthenticationKeys ==
  \E fault \in Logged(
                   {NoFault}
                     \cup UnlinkFaults(1)
                     \cup UnlinkFaults(2),
                   LAMBDA f : mender_storage_delete_authentication_keys(
                                files, f)) :
    LET r == mender_storage_delete_authentication_keys(files, fault)
    IN /\ files' = r.fs
       /\ last' = [op |-> "delete_authentication_keys", ret |-> r.ret,
                   hit |-> r.hit, arg |-> <<>>, out |-> <<>>,
                   heap |-> <<>>, trace |-> r.trace]
       /\ NoteDelete("keys", r.ret)
       /\ UNCHANGED app

NextKeys ==
  \/ SetAuthenticationKeys
  \/ GetAuthenticationKeys
  \/ DeleteAuthenticationKeys

\* The authentication key operations, called in any order.
SpecKeys == Init /\ [][NextKeys]_vars

SaveUpdateState ==
  \E state \in States, artifact_type \in ArtifactTypes :
    \E fault \in Logged(
                     {NoFault}
                       \cup SaveFaults(artifact_type),
                     LAMBDA f : mender_storage_save_update_state(
                                  files, state, artifact_type, f)) :
      LET r == mender_storage_save_update_state(
                 files, state, artifact_type, fault)
      IN /\ Remembered("state", <<state, artifact_type>>)
         /\ files' = r.fs
         /\ last' = [op |-> "save_update_state", ret |-> r.ret,
                     hit |-> r.hit,
                     arg |-> [state |-> state,
                              artifact_type |-> artifact_type],
                     out |-> <<>>, heap |-> <<>>, trace |-> r.trace]
         /\ NoteSet("state", <<state, artifact_type>>, r.ret)
         /\ UNCHANGED app

GetUpdateState ==
  \E fault \in Logged(
                   {NoFault}
                     \cup GetStateFaults,
                   LAMBDA f : mender_storage_get_update_state(files, f)) :
    LET r == mender_storage_get_update_state(files, fault)
    IN /\ files' = r.fs
       /\ last' = [op |-> "get_update_state", ret |-> r.ret,
                   hit |-> r.hit, arg |-> <<>>, out |-> r.out,
                   heap |-> r.heap, trace |-> r.trace]
       /\ UNCHANGED <<app, hist, fresh>>

DeleteUpdateState ==
  \E fault \in Logged(
                   {NoFault}
                     \cup UnlinkFaults(1),
                   LAMBDA f : mender_storage_delete_update_state(files, f)) :
    LET r == mender_storage_delete_update_state(files, fault)
    IN /\ files' = r.fs
       /\ last' = [op |-> "delete_update_state", ret |-> r.ret,
                   hit |-> r.hit, arg |-> <<>>, out |-> <<>>,
                   heap |-> <<>>, trace |-> r.trace]
       /\ NoteDelete("state", r.ret)
       /\ UNCHANGED app

NextState ==
  \/ SaveUpdateState
  \/ GetUpdateState
  \/ DeleteUpdateState

\* The update state operations, called in any order.
SpecState == Init /\ [][NextState]_vars

\* The deployment data callers pass: the texts, and one byte sequence
\* with a NUL inside.
DeploymentData == Texts \cup {Letters(1) \o <<0>> \o Letters(1)}

SetDeploymentData ==
  \E deployment_data \in DeploymentData :
    \E fault \in Logged(
                     DeploymentDataFaults(deployment_data),
                     LAMBDA f : mender_storage_set_deployment_data(
                                  files, deployment_data, f)) :
      LET r == mender_storage_set_deployment_data(
                 files, deployment_data, fault)
      IN /\ Remembered("deployment", <<deployment_data>>)
         /\ files' = r.fs
         /\ last' = [op |-> "set_deployment_data", ret |-> r.ret,
                     hit |-> r.hit,
                     arg |-> [deployment_data |-> deployment_data],
                     out |-> <<>>, heap |-> <<>>, trace |-> r.trace]
         /\ NoteSet("deployment", <<deployment_data>>, r.ret)
         /\ UNCHANGED app

GetDeploymentData ==
  \E fault \in Logged(
                   {NoFault}
                     \cup ReadFaults(1),
                   LAMBDA f : mender_storage_get_deployment_data(files, f)) :
    LET r == mender_storage_get_deployment_data(files, fault)
    IN /\ files' = r.fs
       /\ last' = [op |-> "get_deployment_data", ret |-> r.ret,
                   hit |-> r.hit, arg |-> <<>>, out |-> r.out,
                   heap |-> r.heap, trace |-> r.trace]
       /\ UNCHANGED <<app, hist, fresh>>

DeleteDeploymentData ==
  \E fault \in Logged(
                   {NoFault}
                     \cup UnlinkFaults(1),
                   LAMBDA f : mender_storage_delete_deployment_data(
                                files, f)) :
    LET r == mender_storage_delete_deployment_data(files, fault)
    IN /\ files' = r.fs
       /\ last' = [op |-> "delete_deployment_data", ret |-> r.ret,
                   hit |-> r.hit, arg |-> <<>>, out |-> <<>>,
                   heap |-> <<>>, trace |-> r.trace]
       /\ NoteDelete("deployment", r.ret)
       /\ UNCHANGED app

\* Provides lists of 1..MaxPairs pairs with distinct keys "a", "b", ...,
\* the i-th value i-1 characters long (the first is empty), each list in
\* both orders.
ProvidesForward(n) ==
  [i \in 1..n |-> [key |-> <<96 + i>>, value |-> Letters(i - 1)]]
ProvidesLists ==
  UNION { {ProvidesForward(n),
           [i \in 1..n |-> ProvidesForward(n)[n + 1 - i]]} : n \in 1..MaxPairs }

SetProvides ==
  \E provides \in ProvidesLists :
    \E fault \in Logged(
                     ProvidesFaults(provides),
                     LAMBDA f : mender_storage_set_provides(
                                  files, provides, f)) :
      LET r == mender_storage_set_provides(files, provides, fault)
      IN /\ Remembered("provides", <<provides>>)
         /\ files' = r.fs
         /\ last' = [op |-> "set_provides", ret |-> r.ret, hit |-> r.hit,
                     arg |-> [provides |-> provides],
                     out |-> <<>>, heap |-> <<>>, trace |-> r.trace]
         /\ NoteSet("provides", <<provides>>, r.ret)
         /\ UNCHANGED app

DeleteProvides ==
  \E fault \in Logged(
                   {NoFault}
                     \cup UnlinkFaults(1),
                   LAMBDA f : mender_storage_delete_provides(files, f)) :
    LET r == mender_storage_delete_provides(files, fault)
    IN /\ files' = r.fs
       /\ last' = [op |-> "delete_provides", ret |-> r.ret,
                   hit |-> r.hit, arg |-> <<>>, out |-> <<>>,
                   heap |-> <<>>, trace |-> r.trace]
       /\ NoteDelete("provides", r.ret)
       /\ UNCHANGED app

GetProvides ==
  \E fault \in Logged(
                   {NoFault}
                     \cup ReadFaults(1),
                   LAMBDA f : mender_storage_get_provides(files, f)) :
    LET r == mender_storage_get_provides(files, fault)
    IN /\ files' = r.fs
       /\ last' = [op |-> "get_provides", ret |-> r.ret,
                   hit |-> r.hit, arg |-> <<>>, out |-> r.out,
                   heap |-> r.heap, trace |-> r.trace]
       /\ UNCHANGED <<app, hist, fresh>>

SetArtifactName ==
  \E artifact_name \in Texts :
    \E fault \in Logged(
                     {NoFault}
                       \cup WriteFaults(artifact_name, 1),
                     LAMBDA f : mender_storage_set_artifact_name(
                                  files, artifact_name, f)) :
      LET r == mender_storage_set_artifact_name(files, artifact_name, fault)
      IN /\ Remembered("name", <<artifact_name>>)
         /\ files' = r.fs
         /\ last' = [op |-> "set_artifact_name", ret |-> r.ret,
                     hit |-> r.hit,
                     arg |-> [artifact_name |-> artifact_name],
                     out |-> <<>>, heap |-> <<>>, trace |-> r.trace]
         /\ NoteSet("name", <<artifact_name>>, r.ret)
         /\ UNCHANGED app

GetArtifactName ==
  \E strdup_ok \in BOOLEAN :
    \E fault \in Logged(
                     {NoFault}
                       \cup ReadFaults(1),
                     LAMBDA f : mender_storage_get_artifact_name(
                                  files, f, strdup_ok)) :
    LET r == mender_storage_get_artifact_name(files, fault, strdup_ok)
    IN /\ files' = r.fs
       /\ last' = [op |-> "get_artifact_name", ret |-> r.ret,
                   hit |-> r.hit, arg |-> <<>>, out |-> r.out,
                   heap |-> r.heap, trace |-> r.trace]
       /\ UNCHANGED <<app, hist, fresh>>

NextProvides ==
  \/ SetProvides
  \/ GetProvides
  \/ DeleteProvides

\* The provides operations, called in any order.
SpecProvides == Init /\ [][NextProvides]_vars

NextName ==
  \/ SetArtifactName
  \/ GetArtifactName

\* The artifact name operations, called in any order.
SpecName == Init /\ [][NextName]_vars

NextDeployment ==
  \/ SetDeploymentData
  \/ GetDeploymentData
  \/ DeleteDeploymentData
  \/ SetArtifactName /\ Cardinality(hist'["name"]) = 1

\* The deployment data operations and the writes of another record (one
\* artifact name, set again and again), in any order.
SpecDeployment == Init /\ [][NextDeployment]_vars

\* No set of a record kind other than `kind` was called.
OnlyKind(kind) == \A k \in Kinds \ {kind} : hist[k] = {}

NextStore ==
  \/ OnlyKind("keys") /\ SetAuthenticationKeys
  \/ OnlyKind("keys") /\ GetAuthenticationKeys
  \/ OnlyKind("keys") /\ DeleteAuthenticationKeys
  \/ OnlyKind("state") /\ SaveUpdateState
  \/ OnlyKind("state") /\ GetUpdateState
  \/ OnlyKind("state") /\ DeleteUpdateState
  \/ OnlyKind("deployment") /\ SetDeploymentData
  \/ OnlyKind("deployment") /\ GetDeploymentData
  \/ OnlyKind("deployment") /\ DeleteDeploymentData
  \/ OnlyKind("provides") /\ SetProvides
  \/ OnlyKind("provides") /\ GetProvides
  \/ OnlyKind("provides") /\ DeleteProvides
  \/ OnlyKind("name") /\ SetArtifactName
  \/ OnlyKind("name") /\ GetArtifactName

\* Every operation of the store; the records share no item, and one
\* behaviour calls the operations of every kind on the store as it was
\* created and then keeps to the record kind it wrote first.
SpecStore == Init /\ [][NextStore]_vars

\* The store after the records of the kinds in `present` were set, each
\* by one call that succeeded, on a device that stored nothing before.
Stored(present) ==
  LET ok == WithLog(NoFault, AllFormat)
      s0 == [i \in Items |-> AbsentItem]
      s1 == IF "keys" \in present
              THEN mender_storage_set_authentication_keys(
                     s0, Ramp(MaxKeyLen), Ramp(1), ok).fs
            ELSE s0
      s2 == IF "state" \in present
              THEN mender_storage_save_update_state(
                     s1, MaxState, Letters(MaxTypeLen), ok).fs
            ELSE s1
      s3 == IF "deployment" \in present
              THEN mender_storage_set_deployment_data(
                     s2, Letters(MaxTextLen), ok).fs
            ELSE s2
      s4 == IF "provides" \in present
              THEN mender_storage_set_provides(
                     s3, ProvidesForward(MaxPairs), ok).fs
            ELSE s3
  IN IF "name" \in present
       THEN mender_storage_set_artifact_name(s4, Letters(1), ok).fs
     ELSE s4

\* A store holding any of the five records, before the call looked at.
InitFrame ==
  /\ app = AppStart
  /\ files \in {Stored(present) : present \in SUBSET Kinds}
  /\ last = NoCall
  /\ hist = [k \in Kinds |-> {}]
  /\ fresh = [k \in Kinds |-> None]

\* No operation was called yet.
Uncalled == last = NoCall

\* One call of a set, save or delete operation on such a store.
NextFrame ==
  \/ Uncalled /\ SetAuthenticationKeys
  \/ Uncalled /\ DeleteAuthenticationKeys
  \/ Uncalled /\ SaveUpdateState
  \/ Uncalled /\ DeleteUpdateState
  \/ Uncalled /\ SetDeploymentData
  \/ Uncalled /\ DeleteDeploymentData
  \/ Uncalled /\ SetProvides
  \/ Uncalled /\ DeleteProvides
  \/ Uncalled /\ SetArtifactName

SpecFrame == InitFrame /\ [][NextFrame]_vars

\* The arguments the scheduler functions are called with: handles, NULL
\* among them, delays from -1 (block for ever) on, work functions and
\* intervals.
Handles == 0..MaxHandle
Delays == -1..MaxDelay
WorkFunctions == {"NULL", "work"}
Intervals == 0..MaxInterval

\* What the history records of a scheduler call.
SchedulerCall(op, ret, arg, out) ==
  [op |-> op, ret |-> ret, hit |-> FALSE, arg |-> arg, out |-> out,
   heap |-> <<>>, trace |-> <<>>]

SchedulerInit ==
  /\ last' = SchedulerCall("mender_scheduler_init", mender_scheduler_init,
                           <<>>, <<>>)
  /\ UNCHANGED <<app, files, hist, fresh>>

SchedulerActivate ==
  \E func \in WorkFunctions, interval \in Intervals :
    /\ last' = SchedulerCall("mender_scheduler_activate",
                             mender_scheduler_activate(func, interval),
                             [func |-> func, interval |-> interval], <<>>)
    /\ UNCHANGED <<app, files, hist, fresh>>

SchedulerExit ==
  /\ last' = SchedulerCall("mender_scheduler_exit", mender_scheduler_exit,
                           <<>>, <<>>)
  /\ UNCHANGED <<app, files, hist, fresh>>

MutexCreate ==
  \E handle \in Handles :
    LET r == mender_scheduler_mutex_create(handle)
    IN /\ last' = SchedulerCall("mender_scheduler_mutex_create", r.ret,
                                [handle |-> handle], [handle |-> r.handle])
       /\ UNCHANGED <<app, files, hist, fresh>>

MutexTake ==
  \E handle \in Handles, delay_ms \in Delays :
    /\ last' = SchedulerCall("mender_scheduler_mutex_take",
                             mender_scheduler_mutex_take(handle, delay_ms),
                             [handle |-> handle, delay_ms |-> delay_ms],
                             <<>>)
    /\ UNCHANGED <<app, files, hist, fresh>>

MutexGive ==
  \E handle \in Handles :
    /\ last' = SchedulerCall("mender_scheduler_mutex_give",
                             mender_scheduler_mutex_give(handle),
                             [handle |-> handle], <<>>)
    /\ UNCHANGED <<app, files, hist, fresh>>

MutexDelete ==
  \E handle \in Handles :
    /\ last' = SchedulerCall("mender_scheduler_mutex_delete",
                             mender_scheduler_mutex_delete(handle),
                             [handle |-> handle], <<>>)
    /\ UNCHANGED <<app, files, hist, fresh>>

NextScheduler ==
  \/ SchedulerInit
  \/ SchedulerActivate
  \/ SchedulerExit
  \/ MutexCreate
  \/ MutexTake
  \/ MutexGive
  \/ MutexDelete

\* The weak scheduler's functions, called in any order with any
\* arguments.
SpecScheduler == Init /\ [][NextScheduler]_vars

(* ------------------------- the test application ---------------------- *)

EXIT_SUCCESS == "EXIT_SUCCESS"
EXIT_FAILURE == "EXIT_FAILURE"

\* Thread t is not the one the signal handler has interrupted.
Runs(t) == app.on # t

\* main stands at pc and runs.
MainAt(pc) == app.main = pc /\ Runs("main")

\* The application after main called the client function `name`.
Called(a, name) == [a EXCEPT !.calls = Append(@, name)]

\* pthread_cond_signal with main the only thread that ever waits: main is
\* woken out of pthread_cond_wait if it is in it; a signal sent while no
\* thread waits is not kept.
cond_signal(a) ==
  IF a.main = "waiting" THEN [a EXCEPT !.main = "woken"] ELSE a

\* sigaction for SIGINT and SIGTERM.
InstallHandlers ==
  /\ MainAt("sigaction")
  /\ app' = [app EXCEPT !.main = "getopt"]
  /\ UNCHANGED <<files, last, hist, fresh>>

\* The getopt_long loop: all options are taken, or -h or an unknown
\* option ends main.
ParseOptions ==
  /\ MainAt("getopt")
  /\ \E opt \in {"options", "help", "unknown"} :
       app' = IF opt = "options" THEN [app EXCEPT !.main = "mandatory"]
              ELSE IF opt = "help"
                THEN [app EXCEPT !.main = "END", !.left = "help"]
              ELSE [app EXCEPT !.main = "END", !.ret = EXIT_FAILURE,
                               !.left = "unknown"]
  /\ UNCHANGED <<files, last, hist, fresh>>

\* MAC address, artifact name and device type must all be given.
VerifyOptions ==
  /\ MainAt("mandatory")
  /\ \E given \in BOOLEAN :
       app' = IF given THEN [app EXCEPT !.main = "events_init"]
              ELSE [app EXCEPT !.main = "END", !.ret = EXIT_FAILURE,
                               !.left = "mandatory"]
  /\ UNCHANGED <<files, last, hist, fresh>>

\* pthread_cond_init and pthread_mutex_init.
InitEvents ==
  /\ MainAt("events_init")
  /\ \E failing \in {"none", "cond", "mutex"} :
       app' = IF failing = "none" THEN [app EXCEPT !.main = "client_init"]
              ELSE [app EXCEPT !.main = "END", !.ret = EXIT_FAILURE,
                               !.left = "events_init"]
  /\ UNCHANGED <<files, last, hist, fresh>>

\* A main that goes to RELEASE when mender_client_init fails.
ClientInit_releases ==
  /\ MainAt("client_init")
  /\ \E r \in {MENDER_OK, MENDER_FAIL} :
       app' = IF r = MENDER_OK
                THEN [Called(app, "mender_client_init")
                        EXCEPT !.main = "addons"]
              ELSE [Called(app, "mender_client_init")
                      EXCEPT !.main = "RELEASE", !.ret = EXIT_FAILURE,
                             !.left = "client_init"]
  /\ UNCHANGED <<files, last, hist, fresh>>

\* mender_client_init: a failure goes to END.
ClientInit ==
  /\ MainAt("client_init")
  /\ \E r \in {MENDER_OK, MENDER_FAIL} :
       app' = IF r = MENDER_OK
                THEN [Called(app, "mender_client_init")
                        EXCEPT !.main = "addons"]
              ELSE [Called(app, "mender_client_init")
                      EXCEPT !.main = "END", !.ret = EXIT_FAILURE,
                             !.left = "client_init"]
  /\ UNCHANGED <<files, last, hist, fresh>>

\* The add-ons configured in are registered; a failure goes to RELEASE.
RegisterAddons ==
  /\ MainAt("addons")
  /\ \E r \in {MENDER_OK, MENDER_FAIL} :
       app' = IF r = MENDER_OK
                THEN [Called(app, "mender_client_register_addon")
                        EXCEPT !.main = "activate"]
              ELSE [Called(app, "mender_client_register_addon")
                      EXCEPT !.main = "RELEASE", !.ret = EXIT_FAILURE,
                             !.left = "addons"]
  /\ UNCHANGED <<files, last, hist, fresh>>

\* mender_client_activate: from its success on the client runs and may
\* call restart_cb.
Activate ==
  /\ MainAt("activate")
  /\ \E r \in {MENDER_OK, MENDER_FAIL} :
       app' = IF r = MENDER_OK
                THEN [Called(app, "mender_client_activate")
                        EXCEPT !.main = "lock", !.activated = TRUE,
                               !.worker = "idle"]
              ELSE [Called(app, "mender_client_activate")
                      EXCEPT !.main = "RELEASE", !.ret = EXIT_FAILURE,
                             !.left = "activate"]
  /\ UNCHANGED <<files, last, hist, fresh>>

\* pthread_mutex_lock(&mender_client_events_mutex) in main.
MainLock ==
  /\ MainAt("lock")
  /\ app.owner = "none"
  /\ app' = [app EXCEPT !.main = "wait", !.owner = "main"]
  /\ UNCHANGED <<files, last, hist, fresh>>

\* pthread_cond_wait: the mutex is released and main blocks, in one step.
MainWait ==
  /\ MainAt("wait")
  /\ app' = [app EXCEPT !.main = "waiting", !.owner = "none"]
  /\ UNCHANGED <<files, last, hist, fresh>>

\* pthread_cond_wait may return with no signal sent.
SpuriousWakeup ==
  /\ MainAt("waiting")
  /\ app' = [app EXCEPT !.main = "woken"]
  /\ UNCHANGED <<files, last, hist, fresh>>

\* pthread_cond_wait returns once main, woken, has the mutex again.
MainWake ==
  /\ MainAt("woken")
  /\ app.owner = "none"
  /\ app' = [app EXCEPT !.main = "unlock", !.owner = "main"]
  /\ UNCHANGED <<files, last, hist, fresh>>

MainUnlock ==
  /\ MainAt("unlock")
  /\ app' = [app EXCEPT !.main = "RELEASE", !.owner = "none"]
  /\ UNCHANGED <<files, last, hist, fresh>>

\* RELEASE: mender_client_deactivate.
Deactivate ==
  /\ MainAt("RELEASE")
  /\ app' = [Called(app, "mender_client_deactivate") EXCEPT !.main = "exit"]
  /\ UNCHANGED <<files, last, hist, fresh>>

\* mender_client_exit.
ClientExit ==
  /\ MainAt("exit")
  /\ app' = [Called(app, "mender_client_exit") EXCEPT !.main = "END"]
  /\ UNCHANGED <<files, last, hist, fresh>>

\* END: the option strings are freed and main returns ret.
Return ==
  /\ MainAt("END")
  /\ app' = [app EXCEPT !.main = "returned"]
  /\ UNCHANGED <<files, last, hist, fresh>>

\* The client calls restart_cb.
RestartRequest ==
  /\ app.worker = "idle"
  /\ Runs("worker")
  /\ app.main # "returned"
  /\ app.restarts < MaxRestarts
  /\ app' = [app EXCEPT !.worker = "lock", !.restarts = @ + 1,
                        !.notified = TRUE]
  /\ UNCHANGED <<files, last, hist, fresh>>

RestartLock ==
  /\ app.worker = "lock"
  /\ Runs("worker")
  /\ app.owner = "none"
  /\ app' = [app EXCEPT !.worker = "signal", !.owner = "worker"]
  /\ UNCHANGED <<files, last, hist, fresh>>

RestartSignal ==
  /\ app.worker = "signal"
  /\ Runs("worker")
  /\ app' = [cond_signal(app) EXCEPT !.worker = "unlock"]
  /\ UNCHANGED <<files, last, hist, fresh>>

RestartUnlock ==
  /\ app.worker = "unlock"
  /\ Runs("worker")
  /\ app' = [app EXCEPT !.worker = "idle", !.owner = "none"]
  /\ UNCHANGED <<files, last, hist, fresh>>

\* SIGINT or SIGTERM is delivered to a thread of the process, which
\* enters sig_handler; the handler logs and goes on to the mutex.  The
\* thread does not run until the handler has returned.
SignalArrives ==
  /\ app.handler = "idle"
  /\ app.main \notin {"sigaction", "returned"}
  /\ app.signals < MaxSignals
  /\ \E signo \in {"SIGINT", "SIGTERM"},
        t \in {"main"} \cup (IF app.worker = "none" THEN {}
                             ELSE {"worker"}) :
       app' = [app EXCEPT !.handler = "lock", !.on = t, !.signo = signo,
                          !.signals = @ + 1,
                          !.notified = @ \/ app.activated]
  /\ UNCHANGED <<files, last, hist, fresh>>

\* pthread_mutex_lock in the handler: it blocks while the mutex is held,
\* for ever when the thread it interrupted is the holder.
HandlerLock ==
  /\ app.handler = "lock"
  /\ app.owner = "none"
  /\ app' = [app EXCEPT !.handler = "signal", !.owner = "handler"]
  /\ UNCHANGED <<files, last, hist, fresh>>

HandlerSignal ==
  /\ app.handler = "signal"
  /\ app' = [cond_signal(app) EXCEPT !.handler = "unlock"]
  /\ UNCHANGED <<files, last, hist, fresh>>

\* pthread_mutex_unlock and the return to the interrupted thread.
HandlerUnlock ==
  /\ app.handler = "unlock"
  /\ app' = [app EXCEPT !.handler = "idle", !.owner = "none",
                        !.on = "none"]
  /\ UNCHANGED <<files, last, hist, fresh>>

MainProgress ==
  \/ InstallHandlers
  \/ ParseOptions
  \/ VerifyOptions
  \/ InitEvents
  \/ ClientInit
  \/ RegisterAddons
  \/ Activate
  \/ MainLock
  \/ MainWait
  \/ MainWake
  \/ MainUnlock
  \/ Deactivate
  \/ ClientExit
  \/ Return

RestartProgress == RestartLock \/ RestartSignal \/ RestartUnlock

HandlerProgress == HandlerLock \/ HandlerSignal \/ HandlerUnlock

NextMain ==
  \/ InstallHandlers
  \/ ParseOptions
  \/ VerifyOptions
  \/ InitEvents
  \/ ClientInit
  \/ RegisterAddons
  \/ Activate
  \/ MainLock
  \/ MainWait
  \/ SpuriousWakeup
  \/ MainWake
  \/ MainUnlock
  \/ Deactivate
  \/ ClientExit
  \/ Return
  \/ RestartRequest
  \/ RestartLock
  \/ RestartSignal
  \/ RestartUnlock
  \/ SignalArrives
  \/ HandlerLock
  \/ HandlerSignal
  \/ HandlerUnlock

\* The test application.  A thread that can take its next step takes it
\* in the end: main, the client's thread inside restart_cb, the signal
\* handler.  Nothing obliges the client to ask for a restart, a signal
\* to be sent, or pthread_cond_wait to return with no signal.
SpecMain ==
  /\ Init
  /\ [][NextMain]_vars
  /\ WF_vars(MainProgress)
  /\ WF_vars(RestartProgress)
  /\ WF_vars(HandlerProgress)

\* The levels mender_log_print is called with: the four it knows and
\* one that is none of them.
LogLevels ==
  {MENDER_LOG_LEVEL_ERR, MENDER_LOG_LEVEL_WRN, MENDER_LOG_LEVEL_INF,
   MENDER_LOG_LEVEL_DBG, "MENDER_LOG_LEVEL_OTHER"}

\* The formatted message of n characters, none of them a dot.
Message(n) == [i \in 1..n |-> 97 + (i % 26)]

\* The first call of mender_log_print, with any level and a message of
\* any length up to MaxMessageLen, which vsnprintf formats or not.
LogPrint ==
  \E level \in LogLevels, n \in 0..MaxMessageLen, formats \in BOOLEAN :
    LET r == mender_log_print(level, "function", 1, Message(n), formats)
    IN /\ Uncalled
       /\ last' = [op |-> "mender_log_print", ret |-> r.ret, hit |-> FALSE,
                   arg |-> [level |-> level, message |-> Message(n),
                            formats |-> formats],
                   out |-> [printed |-> r.printed], heap |-> <<>>,
                   trace |-> <<>>]
       /\ UNCHANGED <<app, files, hist, fresh>>

NextLog ==
  \/ LogPrint

\* One call of mender_log_print, which keeps nothing from one call to
\* the next.
SpecLog == Init /\ [][NextLog]_vars

Next ==
  \/ GetAuthenticationKeys
  \/ GetUpdateState
  \/ SetDeploymentData
  \/ GetDeploymentData
  \/ DeleteDeploymentData
  \/ GetProvides
  \/ GetArtifactName

\* Every get, with the deployment data set and deleted in any order; the
\* other records stay as they are on a device that never stored them.
Spec == Init /\ [][Next]_vars

(* ------------------------------- claims ------------------------------- *)

\* What the caller reads through a pointer the last call returned.
Bytes(p) == last.heap[p.id].bytes
ReturnedBytes(p, l) == SubSeq(Bytes(p), 1, l.val)
ReturnedString(p) == CStr(Bytes(p))

\* The last call made the backend call `name` on `item` with result `ok`.
Made(name, item, ok) ==
  \E i \in 1..Len(last.trace) : last.trace[i] = Call(name, item, ok)
Failed(item) ==
  \E i \in 1..Len(last.trace) :
    last.trace[i].item = item /\ ~last.trace[i].ok

\* No set operation of any record kind was ever called.
NeverSet == \A k \in Kinds : hist[k] = {}

\* C1: a save_update_state that returned Ok, followed with no save or
\* delete in between by a get_update_state whose backend calls all
\* succeed, makes the get return Ok with the saved state and the saved
\* artifact type.
C1_SaveGetRoundTrip ==
  (last.op = "get_update_state" /\ fresh["state"].some /\ ~last.hit)
    => /\ last.ret = MENDER_OK
       /\ last.out.state = StateValue(fresh["state"].val[1])
       /\ last.out.artifact_type.tag = "buf"
       /\ ReturnedString(last.out.artifact_type) = fresh["state"].val[2]

\* C2: whenever get_update_state returns Ok, the state and artifact type
\* it returns are a pair that was passed to one save_update_state call.
C2_OnlySavedPairsReturned ==
  (last.op = "get_update_state" /\ last.ret = MENDER_OK)
    => <<last.out.state.val, ReturnedString(last.out.artifact_type)>>
         \in hist["state"]

\* C3: whenever get_authentication_keys returns Ok, the private and the
\* public key it returns were passed together to one
\* set_authentication_keys call.
C3_KeysFromOneCall ==
  (last.op = "get_authentication_keys" /\ last.ret = MENDER_OK)
    => << ReturnedBytes(last.out.private_key, last.out.private_key_length),
          ReturnedBytes(last.out.public_key, last.out.public_key_length) >>
         \in hist["keys"]

\* C4: when the private key item exists and the public key item does not,
\* get_authentication_keys returns NotFound, every buffer it allocated is
\* freed exactly once, the public key outputs are untouched and, when the
\* private key was read, its buffer is freed and *private_key is NULL
\* with length 0.
C4_PartialPairNotExposed ==
  ( /\ last.op = "get_authentication_keys"
    /\ files[MENDER_STORAGE_NVS_PRIVATE_KEY].exists
    /\ ~files[MENDER_STORAGE_NVS_PUBLIC_KEY].exists )
    => /\ last.ret = MENDER_NOT_FOUND
       /\ \A i \in 1..Len(last.heap) : last.heap[i].frees = 1
       /\ last.out.public_key = PtrPrior
       /\ last.out.public_key_length = LenPrior
       /\ Made("fread", MENDER_STORAGE_NVS_PRIVATE_KEY, TRUE)
            => /\ Len(last.heap) = 1
               /\ last.out.private_key = PtrNull
               /\ last.out.private_key_length = LenOf(0)

C4_Witness ==
  /\ last.op = "get_authentication_keys"
  /\ files[MENDER_STORAGE_NVS_PRIVATE_KEY].exists
  /\ ~files[MENDER_STORAGE_NVS_PUBLIC_KEY].exists
  /\ Made("fread", MENDER_STORAGE_NVS_PRIVATE_KEY, TRUE)
  /\ last.ret = MENDER_NOT_FOUND
  /\ last.out.private_key = PtrNull

\* C5: on a store on which no set was ever called, the gets of keys,
\* deployment data, update state and provides return NotFound, and
\* get_artifact_name returns Ok with "unknown" (with NULL only when the
\* strdup of the default itself failed).
C5_FreshStoreReads ==
  NeverSet =>
    /\ last.op \in {"get_authentication_keys", "get_deployment_data",
                    "get_update_state", "get_provides"}
         => last.ret = MENDER_NOT_FOUND
    /\ last.op = "get_artifact_name"
         => /\ last.ret = MENDER_OK
            /\ IF Made("strdup", MENDER_STORAGE_NVS_ARTICACT_NAME, FALSE)
                 THEN last.out.artifact_name = PtrNull
                 ELSE /\ last.out.artifact_name.tag = "buf"
                      /\ ReturnedString(last.out.artifact_name) = Unknown

C5_Witness ==
  /\ NeverSet
  /\ last.op = "get_artifact_name"
  /\ last.ret = MENDER_OK
  /\ last.out.artifact_name.tag = "buf"
  /\ ReturnedString(last.out.artifact_name) = Unknown

\* C6: save_update_state(state, "") that returned Ok, followed by a
\* get_update_state whose backend calls all succeed, makes the get return
\* Ok with that state and an empty artifact type.
C6_EmptyTypeIsValid ==
  ( /\ last.op = "get_update_state"
    /\ fresh["state"].some
    /\ fresh["state"].val[2] = <<>>
    /\ ~last.hit )
    => /\ last.ret = MENDER_OK
       /\ last.out.state = StateValue(fresh["state"].val[1])
       /\ last.out.artifact_type.tag = "buf"
       /\ ReturnedString(last.out.artifact_type) = <<>>

\* C7 as stated: for every update-state item shorter than a state value,
\* get_update_state (its backend calls succeeding) returns Failed and
\* writes neither output.
C7_ShorterThanStateFails ==
  ( /\ last.op = "get_update_state"
    /\ files[MENDER_STORAGE_NVS_UPDATE_STATE].exists
    /\ Len(files[MENDER_STORAGE_NVS_UPDATE_STATE].data) < StateSize
    /\ ~last.hit )
    => /\ last.ret = MENDER_FAIL
       /\ last.out.state = StatePrior
       /\ last.out.artifact_type = PtrPrior

\* C7 amended: for every update-state item of at least one byte and
\* shorter than a state value, a get_update_state that opens the item
\* returns Failed and writes neither output.
C7_NonEmptyShorterThanStateFails ==
  ( /\ last.op = "get_update_state"
    /\ Len(files[MENDER_STORAGE_NVS_UPDATE_STATE].data) > 0
    /\ Len(files[MENDER_STORAGE_NVS_UPDATE_STATE].data) < StateSize
    /\ Made("fopen", MENDER_STORAGE_NVS_UPDATE_STATE, TRUE) )
    => /\ last.ret = MENDER_FAIL
       /\ last.out.state = StatePrior
       /\ last.out.artifact_type = PtrPrior
       /\ last.heap = <<>>

C7_Witness ==
  /\ last.op = "get_update_state"
  /\ Len(files[MENDER_STORAGE_NVS_UPDATE_STATE].data) = StateSize - 1
  /\ last.ret = MENDER_FAIL
  /\ last.out.state = StatePrior

\* C8: get_update_state classifies the item by its length L: NotFound when
\* the item is absent or L = 0; Failed when 0 < L < StateSize + 2 and the
\* item was opened; a read of the record is attempted exactly when the
\* item was opened and L >= StateSize + 2; the call leaves every item
\* as it was.
C8_ClassifiedByLength ==
  [][ last'.op = "get_update_state" =>
        LET f == files[MENDER_STORAGE_NVS_UPDATE_STATE]
            L == Len(f.data)
            opened ==
              \E i \in 1..Len(last'.trace) :
                last'.trace[i] =
                  Call("fopen", MENDER_STORAGE_NVS_UPDATE_STATE, TRUE)
            decoding ==
              \E i \in 1..Len(last'.trace) : last'.trace[i].call = "fread"
        IN /\ (~f.exists \/ L = 0) => last'.ret = MENDER_NOT_FOUND
           /\ (opened /\ 0 < L /\ L < StateSize + 2)
                => last'.ret = MENDER_FAIL
           /\ decoding <=> (opened /\ L >= StateSize + 2)
           /\ files' = files ]_vars

C8_Witness ==
  /\ last.op = "get_update_state"
  /\ Len(files[MENDER_STORAGE_NVS_UPDATE_STATE].data) = StateSize + 1
  /\ last.ret = MENDER_FAIL
  /\ ~Made("fread", MENDER_STORAGE_NVS_UPDATE_STATE, TRUE)
  /\ ~Made("fread", MENDER_STORAGE_NVS_UPDATE_STATE, FALSE)

\* C9: set_authentication_keys returns Ok only when both items hold the
\* keys passed; when the private key write fails it returns Failed, makes
\* no backend call on the public key and leaves it as it was; when the
\* public key write fails it returns Failed and the private key item
\* holds the new private key.
C9_SetKeysFailures ==
  [][ last'.op = "set_authentication_keys" =>
        LET priv == MENDER_STORAGE_NVS_PRIVATE_KEY
            pub == MENDER_STORAGE_NVS_PUBLIC_KEY
            failed(item) ==
              \E i \in 1..Len(last'.trace) :
                last'.trace[i].item = item /\ ~last'.trace[i].ok
            touched(item) ==
              \E i \in 1..Len(last'.trace) : last'.trace[i].item = item
        IN /\ last'.ret \in {MENDER_OK, MENDER_FAIL}
           /\ last'.ret = MENDER_OK
                <=> /\ files'[priv] = Item(last'.arg.private_key)
                    /\ files'[pub] = Item(last'.arg.public_key)
                    /\ ~failed(priv) /\ ~failed(pub)
           /\ failed(priv)
                => /\ last'.ret = MENDER_FAIL
                   /\ ~touched(pub)
                   /\ files'[pub] = files[pub]
           /\ failed(pub)
                => /\ last'.ret = MENDER_FAIL
                   /\ files'[priv] = Item(last'.arg.private_key) ]_vars

C9_Witness ==
  /\ last.op = "set_authentication_keys"
  /\ last.ret = MENDER_FAIL
  /\ Failed(MENDER_STORAGE_NVS_PUBLIC_KEY)
  /\ files[MENDER_STORAGE_NVS_PRIVATE_KEY] = Item(last.arg.private_key)
  /\ files[MENDER_STORAGE_NVS_PUBLIC_KEY] # Item(last.arg.public_key)

\* C10: a set_authentication_keys of two non-empty keys that returned Ok,
\* followed with no set or delete in between by a get_authentication_keys
\* whose backend calls all succeed, makes the get return Ok with both
\* keys equal in length and in every byte to the ones set.
C10_KeysRoundTrip ==
  (last.op = "get_authentication_keys" /\ fresh["keys"].some /\ ~last.hit)
    => /\ last.ret = MENDER_OK
       /\ last.out.private_key.tag = "buf"
       /\ last.out.public_key.tag = "buf"
       /\ last.out.private_key_length = LenOf(Len(fresh["keys"].val[1]))
       /\ last.out.public_key_length = LenOf(Len(fresh["keys"].val[2]))
       /\ ReturnedBytes(last.out.private_key, last.out.private_key_length)
            = fresh["keys"].val[1]
       /\ ReturnedBytes(last.out.public_key, last.out.public_key_length)
            = fresh["keys"].val[2]
       /\ \A i \in 1..Len(last.heap) : last.heap[i].frees = 0

C10_Witness ==
  /\ last.op = "get_authentication_keys"
  /\ fresh["keys"].some
  /\ Len(fresh["keys"].val[1]) # Len(fresh["keys"].val[2])
  /\ last.ret = MENDER_OK
  /\ ReturnedBytes(last.out.public_key, last.out.public_key_length)
       = fresh["keys"].val[2]

\* C11: delete_authentication_keys returns Ok exactly when the call removed
\* both the private key item and the public key item (each was there
\* before and is gone after); every other call returns Failed; and a call
\* never brings an item back or changes one: the private key it removed
\* stays removed when the public key's removal then fails.
C11_DeleteKeysOkIffBothRemoved ==
  [][last'.op = "delete_authentication_keys"
       => LET removed(i) == files[i].exists /\ ~files'[i].exists
          IN /\ (last'.ret = MENDER_OK)
                  <=> (removed(MENDER_STORAGE_NVS_PRIVATE_KEY)
                       /\ removed(MENDER_STORAGE_NVS_PUBLIC_KEY))
             /\ last'.ret \in {MENDER_OK, MENDER_FAIL}
             /\ \A i \in Items : files'[i] \in {files[i], AbsentItem}
             /\ (\E j \in 1..Len(last'.trace) :
                    last'.trace[j]
                      = Call("unlink", MENDER_STORAGE_NVS_PRIVATE_KEY, TRUE))
                  => ~files'[MENDER_STORAGE_NVS_PRIVATE_KEY].exists]_vars

\* The private key was removed and the public key's removal failed.
C11_Witness ==
  /\ last.op = "delete_authentication_keys"
  /\ last.ret = MENDER_FAIL
  /\ Made("unlink", MENDER_STORAGE_NVS_PRIVATE_KEY, TRUE)
  /\ Made("unlink", MENDER_STORAGE_NVS_PUBLIC_KEY, FALSE)
  /\ ~files[MENDER_STORAGE_NVS_PRIVATE_KEY].exists
  /\ files[MENDER_STORAGE_NVS_PUBLIC_KEY].exists

\* C12 as stated: for every deployment-data byte sequence, a
\* set_deployment_data that returned Ok, followed with no set or delete
\* in between by a get_deployment_data whose backend calls all succeed,
\* makes the get return Ok with a buffer holding exactly the bytes set,
\* then the terminating NUL.
C12_DeploymentDataRoundTrip ==
  (last.op = "get_deployment_data" /\ fresh["deployment"].some /\ ~last.hit)
    => /\ last.ret = MENDER_OK
       /\ last.out.deployment_data.tag = "buf"
       /\ Bytes(last.out.deployment_data)
            = fresh["deployment"].val[1] \o <<0>>

\* C12: for every non-empty deployment-data string (bytes with no NUL
\* among them), a set_deployment_data that returned Ok, followed with no
\* set or delete in between by a get_deployment_data whose backend calls
\* all succeed, makes the get return Ok with a live buffer holding exactly
\* the bytes set, then the terminating NUL.
C12_DeploymentStringRoundTrip ==
  (/\ last.op = "get_deployment_data"
   /\ fresh["deployment"].some
   /\ fresh["deployment"].val[1] # <<>>
   /\ \A i \in 1..Len(fresh["deployment"].val[1]) :
         fresh["deployment"].val[1][i] # 0
   /\ ~last.hit)
    => /\ last.ret = MENDER_OK
       /\ last.out.deployment_data.tag = "buf"
       /\ Bytes(last.out.deployment_data)
            = fresh["deployment"].val[1] \o <<0>>
       /\ ReturnedString(last.out.deployment_data)
            = fresh["deployment"].val[1]
       /\ \A i \in 1..Len(last.heap) : last.heap[i].frees = 0

\* The longest text came back after a shorter one had been set.
C12_Witness ==
  /\ last.op = "get_deployment_data"
  /\ fresh["deployment"].some
  /\ Len(fresh["deployment"].val[1]) = MaxTextLen
  /\ Cardinality(hist["deployment"]) > 1
  /\ last.ret = MENDER_OK
  /\ ReturnedString(last.out.deployment_data) = fresh["deployment"].val[1]

\* C13: get_deployment_data returns NotFound when the deployment-data item
\* is absent, and Failed when the item exists and holds data but reading
\* it fails (the allocation of the buffer or the read of the bytes); the
\* two results are never confused.
C13_NotFoundIsNotFailed ==
  last.op = "get_deployment_data"
    => /\ ~files[MENDER_STORAGE_NVS_DEPLOYMENT_DATA].exists
            => last.ret = MENDER_NOT_FOUND
       /\ (\/ Made("malloc", MENDER_STORAGE_NVS_DEPLOYMENT_DATA, FALSE)
           \/ Made("fread", MENDER_STORAGE_NVS_DEPLOYMENT_DATA, FALSE))
            => /\ files[MENDER_STORAGE_NVS_DEPLOYMENT_DATA].exists
               /\ last.ret = MENDER_FAIL

\* C14: from a delete_deployment_data that returned Ok until the next call
\* of set_deployment_data, every get_deployment_data returns NotFound and
\* hands out no buffer, whatever operations on other records are called
\* in between.
C14_DeletedUntilSet ==
  (last.op = "get_deployment_data" /\ fresh["deployment"].deleted)
    => /\ last.ret = MENDER_NOT_FOUND
       /\ last.out.deployment_data = PtrPrior
       /\ ~files[MENDER_STORAGE_NVS_DEPLOYMENT_DATA].exists

\* Deployment data was set and deleted, an artifact name was stored
\* after the delete, and the get still finds nothing.
C14_Witness ==
  /\ last.op = "get_deployment_data"
  /\ fresh["deployment"].deleted
  /\ hist["deployment"] # {}
  /\ fresh["name"].some
  /\ files[MENDER_STORAGE_NVS_ARTICACT_NAME].exists
  /\ last.ret = MENDER_NOT_FOUND

\* C15: get_artifact_name returns Ok with "unknown" when no name was ever
\* set (with NULL only when the strdup of the default itself failed);
\* and when reading the stored name fails other than by NotFound (the
\* allocation of the buffer or the read of the bytes fails) it returns
\* that Failed as it is: the default is not made and no live buffer is
\* handed out.
C15_DefaultOnlyOnNotFound ==
  last.op = "get_artifact_name"
    => /\ hist["name"] = {}
            => /\ last.ret = MENDER_OK
               /\ IF Made("strdup", MENDER_STORAGE_NVS_ARTICACT_NAME, FALSE)
                    THEN last.out.artifact_name = PtrNull
                    ELSE /\ last.out.artifact_name.tag = "buf"
                         /\ ReturnedString(last.out.artifact_name) = Unknown
       /\ (\/ Made("malloc", MENDER_STORAGE_NVS_ARTICACT_NAME, FALSE)
           \/ Made("fread", MENDER_STORAGE_NVS_ARTICACT_NAME, FALSE))
            => /\ last.ret = MENDER_FAIL
               /\ \A ok \in BOOLEAN :
                    ~Made("strdup", MENDER_STORAGE_NVS_ARTICACT_NAME, ok)
               /\ \A i \in 1..Len(last.heap) :
                    /\ last.heap[i].frees = 1
                    /\ CStr(last.heap[i].bytes) # Unknown

\* Reading a stored name failed at fread and the failure came back.
C15_Witness ==
  /\ last.op = "get_artifact_name"
  /\ fresh["name"].some
  /\ Made("fread", MENDER_STORAGE_NVS_ARTICACT_NAME, FALSE)
  /\ last.ret = MENDER_FAIL

\* C16 as stated: for every string, a set_artifact_name that returned Ok,
\* followed with no set in between by a get_artifact_name whose backend
\* calls all succeed, makes the get return Ok with exactly the string
\* set.
C16_NameRoundTrip ==
  (last.op = "get_artifact_name" /\ fresh["name"].some /\ ~last.hit)
    => /\ last.ret = MENDER_OK
       /\ last.out.artifact_name.tag = "buf"
       /\ ReturnedString(last.out.artifact_name) = fresh["name"].val[1]

\* C16: for every non-empty string, a set_artifact_name that returned Ok,
\* followed with no set in between by a get_artifact_name whose backend
\* calls all succeed, makes the get return Ok with a live buffer holding
\* exactly the string set and its terminating NUL; after a
\* set_artifact_name("") that returned Ok the get returns Ok with
\* "unknown".
C16_NonEmptyNameRoundTrip ==
  (last.op = "get_artifact_name" /\ fresh["name"].some /\ ~last.hit)
    => /\ last.ret = MENDER_OK
       /\ last.out.artifact_name.tag = "buf"
       /\ Bytes(last.out.artifact_name)
            = (IF fresh["name"].val[1] = <<>> THEN Unknown
               ELSE fresh["name"].val[1]) \o <<0>>
       /\ \A i \in 1..Len(last.heap) : last.heap[i].frees = 0

\* The longest name came back after a shorter one had been set.
C16_Witness ==
  /\ last.op = "get_artifact_name"
  /\ fresh["name"].some
  /\ Len(fresh["name"].val[1]) = MaxTextLen
  /\ Cardinality(hist["name"]) > 1
  /\ last.ret = MENDER_OK
  /\ ReturnedString(last.out.artifact_name) = fresh["name"].val[1]

\* C19: for every list of key-value pairs with distinct keys (keys and
\* values without "=" and newline), a set_provides that returned Ok,
\* followed with no set or delete in between by a get_provides whose
\* backend calls all succeed, makes the get return Ok with a list of
\* exactly the same keys, each with the value set, and the text buffer
\* freed once.
C19_ProvidesRoundTrip ==
  (last.op = "get_provides" /\ fresh["provides"].some /\ ~last.hit)
    => LET set == fresh["provides"].val[1]
           got == last.out.provides
       IN /\ last.ret = MENDER_OK
          /\ got.set
          /\ Len(got.list) = Len(set)
          /\ {got.list[i] : i \in 1..Len(got.list)}
               = {set[i] : i \in 1..Len(set)}
          /\ \A i \in 1..Len(last.heap) : last.heap[i].frees = 1

\* A list of MaxPairs pairs, the one with the empty value last, came
\* back after another list had been set.
C19_Witness ==
  /\ last.op = "get_provides"
  /\ fresh["provides"].some
  /\ Len(fresh["provides"].val[1]) = MaxPairs
  /\ fresh["provides"].val[1][MaxPairs].value = <<>>
  /\ Cardinality(hist["provides"]) > 1
  /\ last.ret = MENDER_OK
  /\ last.out.provides.list = fresh["provides"].val[1]

\* The latest set call of `kind` returned Ok with value b, the set call
\* of the kind before it returned Ok too with another value a, no delete
\* of the kind was called since, and the last call is the get `op` of
\* the kind with every backend call succeeding.
GetAfterTwoSets(kind, op) ==
  /\ last.op = op
  /\ fresh[kind].some
  /\ fresh[kind].prior # <<>>
  /\ fresh[kind].prior # <<fresh[kind].val>>
  /\ ~last.hit

\* C17: for each record kind, after two successful sets with values a
\* then b, the next get returns Ok with exactly b: every buffer it hands
\* out holds the bytes of b and nothing else, so no byte of a, also when
\* b is shorter than a.
C17_SecondSetReplacesFirst ==
  /\ GetAfterTwoSets("keys", "get_authentication_keys")
       => /\ last.ret = MENDER_OK
          /\ last.out.private_key.tag = "buf"
          /\ last.out.public_key.tag = "buf"
          /\ ReturnedBytes(last.out.private_key, last.out.private_key_length)
               = fresh["keys"].val[1]
          /\ ReturnedBytes(last.out.public_key, last.out.public_key_length)
               = fresh["keys"].val[2]
  /\ GetAfterTwoSets("deployment", "get_deployment_data")
       => /\ last.ret = MENDER_OK
          /\ last.out.deployment_data.tag = "buf"
          /\ Bytes(last.out.deployment_data)
               = fresh["deployment"].val[1] \o <<0>>
  /\ GetAfterTwoSets("state", "get_update_state")
       => /\ last.ret = MENDER_OK
          /\ last.out.state = StateValue(fresh["state"].val[1])
          /\ last.out.artifact_type.tag = "buf"
          /\ Bytes(last.out.artifact_type) = fresh["state"].val[2] \o <<0>>
  /\ GetAfterTwoSets("provides", "get_provides")
       => /\ last.ret = MENDER_OK
          /\ last.out.provides.set
          /\ last.out.provides.list = fresh["provides"].val[1]
  /\ GetAfterTwoSets("name", "get_artifact_name")
       => /\ last.ret = MENDER_OK
          /\ last.out.artifact_name.tag = "buf"
          /\ Bytes(last.out.artifact_name) = fresh["name"].val[1] \o <<0>>

\* The calls of the last operation on the backend: open, write, read,
\* delete.
BackendCalls ==
  SelectSeq(last.trace,
            LAMBDA c : c.call \in {"fopen", "fwrite", "fread", "unlink"})

Empty(item) == files[item].exists /\ files[item].data = <<>>

\* C20: an item that is present with length zero is read like an absent
\* one: get_authentication_keys (either key item empty),
\* get_deployment_data, get_update_state and get_provides return NotFound,
\* and get_artifact_name returns Ok with "unknown" (with NULL only when
\* the strdup of the default itself failed); nothing is read from the
\* empty item and no buffer is allocated for it.
C20_EmptyIsAbsent ==
  /\ (/\ last.op = "get_authentication_keys"
      /\ \/ Empty(MENDER_STORAGE_NVS_PRIVATE_KEY)
         \/ Empty(MENDER_STORAGE_NVS_PUBLIC_KEY))
       => /\ last.ret = MENDER_NOT_FOUND
          /\ last.out.public_key = PtrPrior
          /\ \A i \in 1..Len(last.heap) : last.heap[i].frees = 1
  /\ (last.op = "get_deployment_data"
        /\ Empty(MENDER_STORAGE_NVS_DEPLOYMENT_DATA))
       => /\ last.ret = MENDER_NOT_FOUND
          /\ last.out.deployment_data = PtrPrior
  /\ (last.op = "get_update_state" /\ Empty(MENDER_STORAGE_NVS_UPDATE_STATE))
       => /\ last.ret = MENDER_NOT_FOUND
          /\ last.out.state = StatePrior
          /\ last.out.artifact_type = PtrPrior
  /\ (last.op = "get_provides" /\ Empty(MENDER_STORAGE_NVS_PROVIDES))
       => /\ last.ret = MENDER_NOT_FOUND
          /\ last.out.provides = None_list
  /\ (last.op = "get_artifact_name" /\ Empty(MENDER_STORAGE_NVS_ARTICACT_NAME))
       => /\ last.ret = MENDER_OK
          /\ IF Made("strdup", MENDER_STORAGE_NVS_ARTICACT_NAME, FALSE)
               THEN last.out.artifact_name = PtrNull
               ELSE /\ last.out.artifact_name.tag = "buf"
                    /\ ReturnedString(last.out.artifact_name) = Unknown
  /\ \A item \in Items :
       (last.op \in {"get_authentication_keys", "get_deployment_data",
                     "get_update_state", "get_provides", "get_artifact_name"}
          /\ Empty(item))
         => \A ok \in BOOLEAN, call \in {"malloc", "calloc", "fread"} :
              ~Made(call, item, ok)

\* The private key is stored whole and the public key item is empty:
\* the keys are not found and the private key buffer is given back.
C20_Witness ==
  /\ last.op = "get_authentication_keys"
  /\ files[MENDER_STORAGE_NVS_PRIVATE_KEY].data # <<>>
  /\ Empty(MENDER_STORAGE_NVS_PUBLIC_KEY)
  /\ Made("fopen", MENDER_STORAGE_NVS_PUBLIC_KEY, TRUE)
  /\ last.ret = MENDER_NOT_FOUND
  /\ last.out.private_key = PtrNull

\* The item each single-item delete operation removes.
DeletedItem(op) ==
  CASE op = "delete_deployment_data" -> MENDER_STORAGE_NVS_DEPLOYMENT_DATA
    [] op = "delete_update_state" -> MENDER_STORAGE_NVS_UPDATE_STATE
    [] op = "delete_provides" -> MENDER_STORAGE_NVS_PROVIDES

\* C21: delete_deployment_data, delete_update_state and delete_provides
\* called while their item is absent return Failed and leave every
\* stored item unchanged; so the delete called directly after a delete
\* that returned Ok returns Failed.
C21_DeleteAbsentFails ==
  [][(/\ last'.op \in {"delete_deployment_data", "delete_update_state",
                       "delete_provides"}
      /\ ~files[DeletedItem(last'.op)].exists)
       => /\ last'.ret = MENDER_FAIL
          /\ files' = files
          /\ StoreCalls(last'.trace)
               = <<Call("unlink", DeletedItem(last'.op), FALSE)>>]_vars

\* C21, second part, stated by itself: the same delete called directly
\* after a delete that returned Ok returns Failed.
C21_SecondDeleteFails ==
  [][(/\ last.op \in {"delete_deployment_data", "delete_update_state",
                      "delete_provides"}
      /\ last.ret = MENDER_OK
      /\ last'.op = last.op)
       => last'.ret = MENDER_FAIL /\ files' = files]_vars

\* Deployment data was stored, and a delete found it gone.
C21_Witness ==
  /\ last.op = "delete_deployment_data"
  /\ last.ret = MENDER_FAIL
  /\ ~last.hit
  /\ hist["deployment"] # {}
  /\ ~files[MENDER_STORAGE_NVS_DEPLOYMENT_DATA].exists

\* C22: in the weak scheduler mutex create, take, give and delete return
\* NotImplemented for every argument, never Ok, and create leaves the
\* caller's handle as it was; work activation returns NotImplemented
\* too; init and exit return Ok.
C22_WeakSchedulerResults ==
  /\ last.op \in {"mender_scheduler_mutex_create",
                  "mender_scheduler_mutex_take",
                  "mender_scheduler_mutex_give",
                  "mender_scheduler_mutex_delete",
                  "mender_scheduler_activate"}
       => last.ret = MENDER_NOT_IMPLEMENTED /\ last.ret # MENDER_OK
  /\ last.op = "mender_scheduler_mutex_create"
       => last.out.handle = last.arg.handle
  /\ last.op \in {"mender_scheduler_init", "mender_scheduler_exit"}
       => last.ret = MENDER_OK

\* A take on a non-NULL handle that may block for ever was answered.
C22_Witness ==
  /\ last.op = "mender_scheduler_mutex_take"
  /\ last.arg.handle # 0
  /\ last.arg.delay_ms = -1
  /\ last.ret = MENDER_NOT_IMPLEMENTED

\* What an operation returned, with the fates of its log calls left out.
LogsApart(r) ==
  [r EXCEPT !.trace = [i \in 1..Len(@) |->
                         IF @[i].call = "mender_log_print"
                           THEN [@[i] EXCEPT !.ok = TRUE]
                         ELSE @[i]]]

\* Run, an operation on the stored items as they are, takes every fault
\* point the same way whatever the fate of each of its log calls.
LogIndependent(faults, Run(_)) ==
  \A f \in faults, l \in [1..2 -> BOOLEAN] :
    LogsApart(Run(WithLog(f, l)))
      = LogsApart(Run(WithLog(f, AllFormat)))

\* C23: logging never affects control flow.  For every store operation,
\* on the stored items as they are, with every argument and every fault
\* point: the result returned, the items stored afterwards, the outputs,
\* the buffers and the calls made (log calls among them) are the same
\* whether each log call of the operation succeeds or fails.
C23_LoggingNeverAffectsControlFlow ==
  /\ \A private_key \in Keys, public_key \in Keys :
       LogIndependent({NoFault} \cup WriteFaults(private_key, 1)
                         \cup WriteFaults(public_key, 2),
                      LAMBDA f : mender_storage_set_authentication_keys(
                                   files, private_key, public_key, f))
  /\ LogIndependent({NoFault} \cup ReadFaults(1) \cup ReadFaults(2),
                    LAMBDA f : mender_storage_get_authentication_keys(
                                 files, f))
  /\ LogIndependent({NoFault} \cup UnlinkFaults(1) \cup UnlinkFaults(2),
                    LAMBDA f : mender_storage_delete_authentication_keys(
                                 files, f))
  /\ \A state \in States, artifact_type \in ArtifactTypes :
       LogIndependent({NoFault} \cup SaveFaults(artifact_type),
                      LAMBDA f : mender_storage_save_update_state(
                                   files, state, artifact_type, f))
  /\ LogIndependent({NoFault} \cup GetStateFaults,
                    LAMBDA f : mender_storage_get_update_state(files, f))
  /\ LogIndependent({NoFault} \cup UnlinkFaults(1),
                    LAMBDA f : mender_storage_delete_update_state(files, f))
  /\ \A deployment_data \in DeploymentData :
       LogIndependent(DeploymentDataFaults(deployment_data),
                      LAMBDA f : mender_storage_set_deployment_data(
                                   files, deployment_data, f))
  /\ LogIndependent({NoFault} \cup ReadFaults(1),
                    LAMBDA f : mender_storage_get_deployment_data(files, f))
  /\ LogIndependent({NoFault} \cup UnlinkFaults(1),
                    LAMBDA f : mender_storage_delete_deployment_data(
                                 files, f))
  /\ \A provides \in ProvidesLists :
       LogIndependent(ProvidesFaults(provides),
                      LAMBDA f : mender_storage_set_provides(
                                   files, provides, f))
  /\ LogIndependent({NoFault} \cup ReadFaults(1),
                    LAMBDA f : mender_storage_get_provides(files, f))
  /\ LogIndependent({NoFault} \cup UnlinkFaults(1),
                    LAMBDA f : mender_storage_delete_provides(files, f))
  /\ \A artifact_name \in Texts :
       LogIndependent({NoFault} \cup WriteFaults(artifact_name, 1),
                      LAMBDA f : mender_storage_set_artifact_name(
                                   files, artifact_name, f))
  /\ \A strdup_ok \in BOOLEAN :
       LogIndependent({NoFault} \cup ReadFaults(1),
                      LAMBDA f : mender_storage_get_artifact_name(
                                   files, f, strdup_ok))

\* get_artifact_name failed to read a stored name; read_file's log call and
\* its own both failed, and it returned Failed as it does when they
\* succeed.
C23_Witness ==
  /\ last.op = "get_artifact_name"
  /\ LogCalls(last.trace)
       = <<Call("mender_log_print", MENDER_LOG_LEVEL_ERR, FALSE),
           Call("mender_log_print", MENDER_LOG_LEVEL_ERR, FALSE)>>
  /\ last.ret = MENDER_FAIL
  /\ files[MENDER_STORAGE_NVS_ARTICACT_NAME].data # <<>>

\* The items of the record kind a set, save or delete operation is of.
OwnItems(op) ==
  CASE op \in {"set_authentication_keys", "delete_authentication_keys"}
         -> {"key.der", "pubkey.der"}
    [] op \in {"set_deployment_data", "delete_deployment_data"}
         -> {"deployment-data.json"}
    [] op \in {"save_update_state", "delete_update_state"}
         -> {"um_state.dat"}
    [] op \in {"set_provides", "delete_provides"} -> {"provides.txt"}
    [] op = "set_artifact_name" -> {"artifact_name.txt"}
    [] OTHER -> {}

\* C24: every set, save and delete operation changes only the items of
\* its own record kind (key.der and pubkey.der, deployment-data.json,
\* um_state.dat, provides.txt, artifact_name.txt); every other item is
\* stored afterwards, or absent, as it was before, whether the operation
\* succeeds or fails.  The six items are those and no others.
C24_OnlyOwnItemsChange ==
  [][/\ OwnItems(last'.op) # {}
     /\ DOMAIN files' = {"key.der", "pubkey.der", "deployment-data.json",
                         "um_state.dat", "provides.txt",
                         "artifact_name.txt"}
     /\ \A item \in DOMAIN files \ OwnItems(last'.op) :
          files'[item] = files[item]]_vars

\* save_update_state failed after part of the state value was written,
\* on a store that holds every other record: those are all still there.
C24_Witness ==
  /\ last.op = "save_update_state"
  /\ last.ret = MENDER_FAIL
  /\ files["um_state.dat"].exists
  /\ Len(files["um_state.dat"].data) < StateSize
  /\ files["key.der"].data = Ramp(MaxKeyLen)
  /\ files["pubkey.der"].data = Ramp(1)
  /\ files["deployment-data.json"].data = Letters(MaxTextLen)
  /\ files["provides.txt"].data # <<>>
  /\ files["artifact_name.txt"].data = Letters(1)

GetOperations ==
  {"get_authentication_keys", "get_deployment_data", "get_update_state",
   "get_provides", "get_artifact_name"}

\* C25: every get operation leaves every stored item as it was, whatever
\* it returns: no item is created, written or deleted.  So
\* get_artifact_name answering with the default "unknown" does not
\* create the artifact name item, and get_update_state returning Failed
\* for a short record leaves the record as it was.
C25_GetsChangeNothing ==
  [][last'.op \in GetOperations => files' = files]_vars

\* get_update_state returned Failed for a record shorter than a state
\* value and a type, and the record is there as it was written.
C25_Witness ==
  /\ last.op = "get_update_state"
  /\ last.ret = MENDER_FAIL
  /\ ~last.hit
  /\ files[MENDER_STORAGE_NVS_UPDATE_STATE].exists
  /\ Len(files[MENDER_STORAGE_NVS_UPDATE_STATE].data) \in 1..StateSize

\* get_artifact_name answered with the default and there is no artifact
\* name item afterwards.
C25_WitnessDefault ==
  /\ last.op = "get_artifact_name"
  /\ last.ret = MENDER_OK
  /\ last.out.artifact_name = PtrBuf(1)
  /\ Bytes(last.out.artifact_name) = Unknown \o <<0>>
  /\ ~files[MENDER_STORAGE_NVS_ARTICACT_NAME].exists

\* C26: delete_authentication_keys removes the private key first, and
\* when that removal fails, because the backend refuses or because the
\* private key item is absent, it does not attempt to remove the public
\* key: the failed unlink is its only call on the store, it returns
\* Failed, and both key items are as they were.
C26_PrivateKeyFirst ==
  [][last'.op = "delete_authentication_keys"
       => LET T == StoreCalls(last'.trace)
          IN /\ T # <<>>
             /\ T[1].call = "unlink"
             /\ T[1].item = MENDER_STORAGE_NVS_PRIVATE_KEY
             /\ ~T[1].ok
                  => /\ Len(T) = 1
                     /\ last'.ret = MENDER_FAIL
                     /\ files' = files
             /\ T[1].ok
                  => /\ Len(T) = 2
                     /\ T[2].call = "unlink"
                     /\ T[2].item = MENDER_STORAGE_NVS_PUBLIC_KEY]_vars

\* The private key item was absent and the public key item stored when
\* delete_authentication_keys was called: it failed on the private key
\* and the public key is still stored.
C26_Witness ==
  /\ last.op = "delete_authentication_keys"
  /\ last.ret = MENDER_FAIL
  /\ ~last.hit
  /\ StoreCalls(last.trace)
       = <<Call("unlink", MENDER_STORAGE_NVS_PRIVATE_KEY, FALSE)>>
  /\ ~files[MENDER_STORAGE_NVS_PRIVATE_KEY].exists
  /\ files[MENDER_STORAGE_NVS_PUBLIC_KEY].exists

\* The buffer pointers among the outputs of the last get operation.
OutPointers ==
  {last.out[field] :
     field \in DOMAIN last.out
                \cap {"private_key", "public_key", "deployment_data",
                      "artifact_type", "artifact_name"}}

\* C27: whenever a get operation returns a result other than Ok, every
\* buffer the call allocated has been released exactly once and no output
\* pointer of the caller refers to a released buffer; when it returns Ok,
\* each returned pointer refers to a buffer the call allocated and did
\* not release (get_provides hands out the decoded list and has released
\* the text it read).
C27_BuffersReleasedOrOwned ==
  last.op \in GetOperations
    => /\ last.ret # MENDER_OK
            => /\ \A i \in 1..Len(last.heap) : last.heap[i].frees = 1
               /\ \A p \in OutPointers : p.tag # "buf"
       /\ last.ret = MENDER_OK
            => /\ \A p \in OutPointers :
                    p.tag = "buf" /\ last.heap[p.id].frees = 0
               /\ \A i \in 1..Len(last.heap) :
                    last.heap[i].frees
                      = (IF PtrBuf(i) \in OutPointers THEN 0 ELSE 1)

\* C28: whenever get_update_state returns NotFound or Failed, the
\* caller's state output holds the value it had before the call, also
\* when the failure occurs while the artifact type is read, after the
\* state value was read.
C28_StateOutputKeptOnError ==
  (last.op = "get_update_state" /\ last.ret # MENDER_OK)
    => last.out.state = StatePrior

\* C29: get_authentication_keys returns only Ok or NotFound.  Every
\* failure to read either key item, a failed open, a failed allocation
\* or a failed read of an item that is there, is reported as NotFound,
\* never as Failed; Ok is returned only when no call failed.
C29_KeysReadFailureIsNotFound ==
  last.op = "get_authentication_keys"
    => LET T == StoreCalls(last.trace)
           failed == \E i \in 1..Len(T) : ~T[i].ok
       IN /\ last.ret \in {MENDER_OK, MENDER_NOT_FOUND}
          /\ failed => last.ret = MENDER_NOT_FOUND
          /\ last.ret = MENDER_OK => ~failed

\* Both keys are stored whole; the public key's fread failed after the
\* private key was read, and the call returned NotFound.
C29_Witness ==
  /\ last.op = "get_authentication_keys"
  /\ last.ret = MENDER_NOT_FOUND
  /\ fresh["keys"].some
  /\ Made("fread", MENDER_STORAGE_NVS_PRIVATE_KEY, TRUE)
  /\ Made("fread", MENDER_STORAGE_NVS_PUBLIC_KEY, FALSE)

\* main called mender_client_deactivate and then mender_client_exit.
Released ==
  /\ Len(app.calls) >= 2
  /\ app.calls[Len(app.calls) - 1] = "mender_client_deactivate"
  /\ app.calls[Len(app.calls)] = "mender_client_exit"

\* C30: in the test application, once mender_client_activate has
\* succeeded, every restart request and every SIGINT or SIGTERM, at
\* whatever moment it arrives relative to main starting to wait on the
\* events condition, makes main in the end leave the wait and call
\* mender_client_deactivate and then mender_client_exit: no such
\* notification is lost.
C30_NoNotificationLost ==
  (app.activated /\ app.notified) ~> Released

\* How many times main has called the client function name.
TimesCalled(name) ==
  Cardinality({i \in 1..Len(app.calls) : app.calls[i] = name})

\* mender_client_init was called and main went on past it.
InitReturnedOk ==
  TimesCalled("mender_client_init") = 1 /\ app.left # "client_init"

\* C31: in the test application's main, mender_client_deactivate
\* followed by mender_client_exit is called exactly once on every path
\* on which mender_client_init returned Ok, a failed add-on registration
\* or activation included; neither is called when option parsing fails,
\* a mandatory option is missing or mender_client_init fails; and main
\* returns EXIT_FAILURE on each of these failure paths.  At no moment
\* has either been called twice, or mender_client_exit been called
\* with no mender_client_deactivate just before it.
C31_ReleaseExactlyWhenInitialised ==
  /\ TimesCalled("mender_client_deactivate") <= 1
  /\ TimesCalled("mender_client_exit") <= 1
  /\ TimesCalled("mender_client_exit") = 1 => Released
  /\ TimesCalled("mender_client_deactivate") = 1 => InitReturnedOk
  /\ app.main = "returned"
       => /\ InitReturnedOk => Released
          /\ app.left \in {"unknown", "mandatory", "client_init"}
               => /\ TimesCalled("mender_client_deactivate") = 0
                  /\ TimesCalled("mender_client_exit") = 0
          /\ app.left \in {"unknown", "mandatory", "client_init",
                            "addons", "activate"}
               => app.ret = EXIT_FAILURE

\* mender_client_init returned Ok, mender_client_activate failed, and
\* main has returned EXIT_FAILURE after the two release calls.
C31_Witness ==
  /\ app.main = "returned"
  /\ app.left = "activate"
  /\ InitReturnedOk
  /\ Released
  /\ app.ret = EXIT_FAILURE

\* mender_client_init failed and main has returned with no release call
\* made.
C31_WitnessInitFailed ==
  /\ app.main = "returned"
  /\ app.left = "client_init"
  /\ app.calls = <<"mender_client_init">>
  /\ app.ret = EXIT_FAILURE

\* main waited, was notified, and returned EXIT_SUCCESS after the two
\* release calls.
C31_WitnessNotified ==
  /\ app.main = "returned"
  /\ app.left = "none"
  /\ app.notified
  /\ Released
  /\ app.ret = EXIT_SUCCESS

\* The message text mender_log_print printed after the level's prefix.
PrintedText == last.out.printed[Len(last.out.printed)]

\* The level is one of the four mender_log_print prints for.
KnownLevel ==
  last.arg.level \in {MENDER_LOG_LEVEL_ERR, MENDER_LOG_LEVEL_WRN,
                      MENDER_LOG_LEVEL_INF, MENDER_LOG_LEVEL_DBG}

\* What C32 says of the value returned and of the message printed for a
\* level that is known.
LogPrintReturnsAndCuts ==
  /\ last.ret = (IF last.arg.formats THEN MENDER_OK ELSE MENDER_FAIL)
  /\ (last.arg.formats /\ KnownLevel)
       => IF Len(last.arg.message) >= 256
            THEN /\ Len(PrintedText) = 255
                 /\ SubSeq(PrintedText, 253, 255) = <<46, 46, 46>>
                 /\ SubSeq(PrintedText, 1, 252)
                      = SubSeq(last.arg.message, 1, 252)
          ELSE PrintedText = last.arg.message

\* C32 as stated: mender_log_print returns Failed exactly when formatting
\* the message fails and Ok otherwise, for every level value including
\* unknown levels, for which nothing is printed; a formatted message of
\* 256 characters or more is cut to 255 characters whose last three are
\* dots.
C32_Original ==
  last.op = "mender_log_print"
    => /\ LogPrintReturnsAndCuts
       /\ ~KnownLevel => last.out.printed = <<>>

\* C32, amended: mender_log_print returns Failed exactly when formatting
\* the message fails and Ok otherwise, for every level value including
\* unknown levels; a formatted message of 256 characters or more is cut
\* to 255 characters whose last three are dots.  For an unknown level
\* nothing is printed when the message was formatted; when formatting
\* fails the logger's own error line is printed whatever the level.
C32_LogPrintResult ==
  last.op = "mender_log_print"
    => /\ LogPrintReturnsAndCuts
       /\ (~KnownLevel /\ last.arg.formats) => last.out.printed = <<>>
       /\ ~last.arg.formats
            => /\ last.out.printed # <<>>
               /\ last.out.printed[1]
                    = "error: logger error: log message formatting failed: "

\* A message of more than 256 characters printed at a known level: 255
\* characters came out.
C32_Witness ==
  /\ last.op = "mender_log_print"
  /\ last.ret = MENDER_OK
  /\ KnownLevel
  /\ Len(last.arg.message) > 256
  /\ Len(PrintedText) = 255

\* Formatting failed at an unknown level: Failed was returned and the
\* logger's error line printed.
C32_WitnessUnknownLevel ==
  /\ last.op = "mender_log_print"
  /\ ~KnownLevel
  /\ last.ret = MENDER_FAIL
  /\ last.out.printed # <<>>

====
